---- MODULE Spec2Model ----
(***************************************************************************)
(* Model of the market_pulse ingestion / cache / distribution core:        *)
(*   - the Redis-backed shared state store        (src/src/redis.ts)       *)
(*   - the Socket.IO distribution engine          (src/src/index.ts)       *)
(*   - the provider manager (supervisor, turbo)   (src/src/providers/)     *)
(* Every await of the source is a step boundary: an operation that awaits  *)
(* twice is modelled by one action per segment, with its locals carried in *)
(* a continuation record.                                                  *)
(***************************************************************************)
EXTENDS Integers, Sequences, FiniteSets, TLC

(***************************************************************************)
(* Bounds of the model.                                                    *)
(***************************************************************************)
\* number of updateAssets calls explored against the store alone
MaxWrites == 2
\* number of updateAssets calls explored with sockets attached
MaxLiveWrites == 1
\* number of successful connects of a push connector explored
MaxOpens == 1
\* number of administrative clear calls explored
MaxClears == 1
\* longest batch handed to updateAssets
MaxBatch == 2
\* number of subscribe requests explored
MaxSubscribes == 2

(***************************************************************************)
(* Data.  An asset id is `${category}-${symbol}` (models.ts), modelled as  *)
(* the pair <<category, symbol>>.                                          *)
(***************************************************************************)
Categories == {"crypto", "stocks"}
Symbols == {"BTC", "AAPL"}
Ids == {<<"crypto", "BTC">>, <<"stocks", "BTC">>, <<"stocks", "AAPL">>}
NoAsset == [none |-> TRUE]
NoId == <<>>

CategoryOf(id) == id[1]
SymbolOf(id) == id[2]

\* The record a connector produces for id; ver numbers the produced records.
Asset(id, ver) ==
    [id |-> id, category |-> CategoryOf(id), symbol |-> SymbolOf(id), ver |-> ver]

SeqToSet(s) == {s[i] : i \in 1..Len(s)}

\* batches: non-empty sequences of distinct ids, at most MaxBatch long
Batches ==
    {b \in UNION {[1..n -> Ids] : n \in 1..MaxBatch} :
        \A i, j \in 1..Len(b) : i # j => b[i] # b[j]}

Clients == {"c1", "c2"}

VARIABLES
    \* ---- shared state store (redis.ts)
    assets,      \* primary storage: key asset:<id> -> stored record or NoAsset
    catIndex,    \* key category:<c> -> set of ids (no TTL)
    symbols,     \* hash symbols: symbol -> id or NoId (no TTL)
    channel,     \* messages published on 'asset-updates', not yet consumed
    storeUp,     \* FALSE while the store rejects commands
    wseq,        \* number of updateAssets pipelines executed so far
    lastWrite,   \* per id: wseq of the last pipeline that wrote it (0: never written)
    updating,    \* updateAssets calls between pipeline.exec() and publish
    clearing,    \* clear calls suspended at an await
    nclears,     \* number of clear calls started
    \* ---- distribution engine (index.ts, setupWebSocketServer)
    clientState, \* per socket: "new", "connected" or "disconnected"
    subs,        \* per socket: socket.subscriptions
    rooms,       \* per socket: the Socket.IO rooms it has joined
    subscriptions, \* the SubscriptionStats counters
    subscribing, \* subscribe handlers suspended at their store read
    handling,    \* update notifications whose mget has run, emit pending
    nsubs,       \* number of subscribe requests accepted
    \* ---- provider manager (providers/index.ts)
    directStreamSubscribers, \* turbo registry: symbol -> set of sockets
    turboCleanup, \* per socket: symbol lists of its registered disconnect listeners
    \* ---- connection supervision (providers/)
    retryCount,  \* provider.retryCount of the provider the manager supervises
    reconnectAttempts, \* per connector: its private reconnectAttempts
    link,        \* per reconnect path: "connecting", "connected", "backoff" or "failed"
    failures,    \* per reconnect path: consecutive failed attempts since the last success
    timers,      \* every setTimeout of a reconnect so far: [path, n, delay]
    opens,       \* number of connects that succeeded so far
    \* ---- polling (providers/index.ts, providers/financialmodelingprep)
    breaker,     \* the provider's circuit breaker: state, trial, window counts
    polling,     \* per category: "none", "first" (initial fetch awaited) "interval" or "cleared" (its timer cancelled)
    requests,    \* upstream requests in flight: [n, category, kind, trial]
    nfetch,      \* number of fetchAndUpdateFromApi calls started
    failedOf,    \* per category: an upstream request of it has failed
    returned,    \* the fetchAndUpdateFromApi call that returned last: [n, category, kind, trial, result]
    \* ---- process (index.ts)
    phase,       \* "serving", or the await gracefulShutdown has reached
    \* ---- exploration
    budget,      \* number of updateAssets calls the behaviour may make
    \* ---- what the step just taken did
    emitted,     \* the socket emits of the step just taken: [to, event, assets]
    returnedIds, \* the id list an updateAssets call returned in the step just taken
    \* ---- connectors and models.ts as functions of their input
    call,        \* the input being handled: an upstream payload or the arguments of a call
    output,      \* what the function handed back for it
    kept,        \* asset id -> the entry the store holds for it, as a read parses it
    ncalls,      \* number of inputs handled so far (also the clock of lastUpdated)
    \* ---- the CEX.IO push connector under the manager (providers/cexio, providers/index.ts)
    sockets,     \* number of upstream sockets connecting and open, by who set their handlers
    pending,     \* number of pending catch continuations and reconnect timers
    tally        \* connection attempts, consecutive failures, opens, drops so far

storeVars == <<assets, catIndex, symbols, channel, storeUp, wseq, lastWrite,
               updating, clearing, nclears>>
distVars == <<clientState, subs, rooms, subscriptions, subscribing, handling, nsubs>>
turboVars == <<directStreamSubscribers, turboCleanup>>
supVars == <<retryCount, reconnectAttempts, link, failures, timers, opens>>
pollVars == <<breaker, polling, requests, nfetch, failedOf, returned>>
lifeVars == <<phase>>
outVars == <<emitted, returnedIds>>
feedVars == <<call, output, kept, ncalls>>
pushVars == <<sockets, pending, tally>>

vars == <<storeVars, distVars, turboVars, supVars, pollVars, lifeVars, budget, outVars,
          feedVars, pushVars>>

\* a step that emits nothing
Quiet == emitted' = {} /\ returnedIds' = {}

(***************************************************************************)
(* redis.ts: updateAssets                                                  *)
(***************************************************************************)
\* faulty variant: the stored entry is stamped by the write, not by the record
PipelineAssetStamped(st, a, w) ==
    [assets   |-> [st.assets EXCEPT ![a.id] =
                      [id |-> a.id, category |-> a.category, symbol |-> a.symbol,
                       ver |-> w, w |-> w]],
     catIndex |-> [st.catIndex EXCEPT ![a.category] = @ \cup {a.id}],
     symbols  |-> [st.symbols EXCEPT ![a.symbol] = a.id]]

\* faulty variant: SET ... NX, an existing entry is not replaced
PipelineAssetNX(st, a, w) ==
    IF st.assets[a.id] # NoAsset THEN st
    ELSE [assets   |-> [st.assets EXCEPT ![a.id] =
                           [id |-> a.id, category |-> a.category, symbol |-> a.symbol,
                            ver |-> a.ver, w |-> w]],
          catIndex |-> [st.catIndex EXCEPT ![a.category] = @ \cup {a.id}],
          symbols  |-> [st.symbols EXCEPT ![a.symbol] = a.id]]

\* One asset of the pipeline: SET key EX, SADD category, HSET symbols.
PipelineAsset(st, a, w) ==
    [assets   |-> [st.assets EXCEPT ![a.id] =
                      [id |-> a.id, category |-> a.category, symbol |-> a.symbol,
                       ver |-> a.ver, w |-> w]],
     catIndex |-> [st.catIndex EXCEPT ![a.category] = @ \cup {a.id}],
     symbols  |-> [st.symbols EXCEPT ![a.symbol] = a.id]]

\* faulty variant: the pipeline is built but the publish does not wait for
\* its commands to be applied
PipelineNotAwaited(st, batch, w) == st

RECURSIVE PipelineExec(_, _, _)
PipelineExec(st, batch, w) ==
    IF batch = <<>> THEN st
    ELSE IF Head(batch).id = NoId THEN PipelineExec(st, Tail(batch), w)
    ELSE PipelineExec(PipelineAsset(st, Head(batch), w), Tail(batch), w)

Store == [assets |-> assets, catIndex |-> catIndex, symbols |-> symbols]

IdsOf(batch) == [i \in 1..Len(batch) |-> batch[i].id]

\* faulty variant: the id is collected before the record is checked for one
AssetIdsUnchecked(batch) == [i \in 1..Len(batch) |-> batch[i].id]

\* assetIds of updateAssets: the ids of the records that have one, in order
AssetIds(batch) == SelectSeq(IdsOf(batch), LAMBDA id : id # NoId)

\* what an updateAssets call that got past both awaits returns to its caller
Returns(k) == IF k.ok /\ storeUp THEN {AssetIds(k.batch)} ELSE {}

UpdateMessage(ids, w) == [type |-> "update", assets |-> ids, w |-> w]

\* updateAssets up to `await pipeline.exec()`.  With the store up the
\* writes of the batch are applied; with the store down the pipeline is
\* rejected.  Either way the caller (origin) stays suspended; the record of
\* the call notes the turbo registry as it was when the batch was produced.
updateAssets(batch, origin) ==
    LET w  == wseq + 1
        st == IF storeUp THEN PipelineExec(Store, batch, w) ELSE Store
    IN /\ assets' = st.assets
       /\ catIndex' = st.catIndex
       /\ symbols' = st.symbols
       /\ wseq' = w
       /\ lastWrite' = [i \in Ids |-> IF st.assets[i] # NoAsset /\ st.assets[i].w = w
                                      THEN w ELSE lastWrite[i]]
       /\ updating' = Append(updating, [batch |-> batch, w |-> w, origin |-> origin,
                                        ok |-> storeUp, turbo |-> directStreamSubscribers])
       /\ UNCHANGED <<channel, storeUp, clearing, nclears>>

\* faulty variant: the update message is published whether or not the
\* pipeline was executed
publishAssetUpdateAlways(k) ==
    /\ channel' = Append(channel, UpdateMessage(AssetIds(k.batch), k.w))
    /\ updating' = Tail(updating)
    /\ UNCHANGED <<assets, catIndex, symbols, storeUp, wseq, lastWrite, clearing, nclears>>

\* publishAssetUpdate: one 'update' message carrying the ids of the batch;
\* nothing is published when the pipeline was rejected or the publish fails
publishAssetUpdate(k) ==
    /\ channel' = IF k.ok /\ storeUp
                  THEN Append(channel, UpdateMessage(AssetIds(k.batch), k.w))
                  ELSE channel
    /\ updating' = Tail(updating)
    /\ UNCHANGED <<assets, catIndex, symbols, storeUp, wseq, lastWrite, clearing, nclears>>

(***************************************************************************)
(* TTL: every primary entry is SET with EX cacheExpiry; the category sets  *)
(* and the symbols hash carry no TTL.                                      *)
(***************************************************************************)
Expire ==
    /\ \E id \in Ids :
          /\ assets[id] # NoAsset
          /\ assets' = [assets EXCEPT ![id] = NoAsset]
    /\ UNCHANGED <<catIndex, symbols, channel, storeUp, wseq, lastWrite, updating,
                   clearing, nclears>>
    /\ UNCHANGED <<distVars, turboVars, budget, supVars, pollVars, lifeVars, feedVars, pushVars>>
    /\ Quiet

(***************************************************************************)
(* redis.ts: reads                                                         *)
(***************************************************************************)
RECURSIVE SetToSeq(_)
SetToSeq(S) ==
    IF S = {} THEN <<>>
    ELSE LET x == CHOOSE y \in S : TRUE IN <<x>> \o SetToSeq(S \ {x})

getAsset(id) == assets[id]

\* mget + filter: missing ids are omitted, order kept
RECURSIVE getAssetsByIds(_)
getAssetsByIds(ids) ==
    IF ids = <<>> THEN <<>>
    ELSE LET rest == getAssetsByIds(Tail(ids))
             id == Head(ids)
         IN IF assets[id] = NoAsset THEN rest ELSE <<assets[id]>> \o rest

\* faulty variant: one result per listed id, a missing entry handed back as
\* it was read
getAssetsByCategoryListed(category) ==
    LET ids == SetToSeq(catIndex[category]) IN [i \in 1..Len(ids) |-> assets[ids[i]]]

\* smembers + getAssetsByIds (the reply order of SMEMBERS is left to SetToSeq)
getAssetsByCategory(category) == getAssetsByIds(SetToSeq(catIndex[category]))

\* hget per symbol, null ids dropped, then getAssetsByIds
getAssetsBySymbols(syms) ==
    getAssetsByIds(SelectSeq([i \in 1..Len(syms) |-> symbols[syms[i]]],
                             LAMBDA id : id # NoId))

\* the categories in the order getAllAssets walks them
CategoryList == <<"crypto", "stocks">>

RECURSIVE getAllFrom(_)
getAllFrom(cats) ==
    IF cats = <<>> THEN <<>>
    ELSE getAssetsByCategory(Head(cats)) \o getAllFrom(Tail(cats))

getAllAssets == getAllFrom(CategoryList)

(***************************************************************************)
(* redis.ts: administrative clears.  Each call is a chain of awaits; the   *)
(* continuation record holds the locals read before the await.             *)
(***************************************************************************)
\* KEYS prefix*: every key that currently exists
Keys ==
    {<<"asset", id>> : id \in {i \in Ids : assets[i] # NoAsset}}
      \cup {<<"category", c>> : c \in {k \in Categories : catIndex[k] # {}}}
      \cup (IF \E s \in Symbols : symbols[s] # NoId THEN {<<"symbols">>} ELSE {})

\* a clear call begins; ks holds its continuation (empty: it returned at once)
StartClear(ks) ==
    /\ storeUp
    /\ nclears < MaxClears
    /\ nclears' = nclears + 1
    /\ clearing' = clearing \cup {k @@ [n |-> nclears + 1] : k \in ks}
    /\ UNCHANGED <<assets, catIndex, symbols, channel, storeUp, wseq, lastWrite, updating>>
    /\ UNCHANGED <<distVars, turboVars, budget, supVars, pollVars, lifeVars, feedVars, pushVars>>
    /\ Quiet

\* a clear call resumes after an await: continuation k is replaced by ks
Resume(k, ks) ==
    /\ clearing' = (clearing \ {k}) \cup {c @@ [n |-> k.n] : c \in ks}
    /\ UNCHANGED <<storeUp, wseq, lastWrite, updating, nclears>>
    /\ UNCHANGED <<distVars, turboVars, budget, supVars, pollVars, lifeVars, feedVars, pushVars>>
    /\ Quiet

ClearMessage(type, ids) == [type |-> type, assets |-> ids, w |-> wseq]

\* clearAll: keys = await KEYS; no key -> return without publishing
clearAll ==
    StartClear(IF Keys = {} THEN {}
               ELSE {[op |-> "clearAll", pc |-> "exec", keys |-> Keys]})

\* clearAll: await del(...batch) (one DEL: fewer keys than batchSize)
clearAllDel ==
    \E k \in clearing :
        /\ k.op = "clearAll" /\ k.pc = "exec"
        /\ assets' = [i \in Ids |-> IF <<"asset", i>> \in k.keys THEN NoAsset ELSE assets[i]]
        /\ catIndex' = [c \in Categories |->
                          IF <<"category", c>> \in k.keys THEN {} ELSE catIndex[c]]
        /\ symbols' = [s \in Symbols |-> IF <<"symbols">> \in k.keys THEN NoId ELSE symbols[s]]
        /\ UNCHANGED channel
        /\ Resume(k, {[op |-> "clearAll", pc |-> "publish", msg |-> ClearMessage("clear", <<>>)]})

\* clearCategory: assetIds = await SMEMBERS; none -> return without publishing
clearCategory(category) ==
    StartClear(IF catIndex[category] = {} THEN {}
               ELSE {[op |-> "clearCategory", pc |-> "exec", category |-> category,
                      assetIds |-> catIndex[category]]})

\* clearCategory: pipeline DEL asset:<id> for the ids read, DEL category key
clearCategoryExec ==
    \E k \in clearing :
        /\ k.op = "clearCategory" /\ k.pc = "exec"
        /\ assets' = [i \in Ids |-> IF i \in k.assetIds THEN NoAsset ELSE assets[i]]
        /\ catIndex' = [catIndex EXCEPT ![k.category] = {}]
        /\ UNCHANGED <<symbols, channel>>
        /\ Resume(k, {[op |-> "clearCategory", pc |-> "publish",
                       msg |-> ClearMessage("clear-category", SetToSeq(k.assetIds))]})

\* clearAsset: asset = await getAsset(id); null -> return without publishing
clearAssetGet(id) ==
    IF getAsset(id) = NoAsset
    THEN {}
    ELSE {[op |-> "clearAsset", pc |-> "exec", id |-> id,
           category |-> getAsset(id).category, symbol |-> getAsset(id).symbol]}

clearAsset(id) == StartClear(clearAssetGet(id))

\* clearAsset: pipeline DEL asset:<id>, SREM category id, HDEL symbols symbol
clearAssetExec ==
    \E k \in clearing :
        /\ k.op = "clearAsset" /\ k.pc = "exec"
        /\ assets' = [assets EXCEPT ![k.id] = NoAsset]
        /\ catIndex' = [catIndex EXCEPT ![k.category] = @ \ {k.id}]
        /\ symbols' = [symbols EXCEPT ![k.symbol] = NoId]
        /\ UNCHANGED channel
        /\ Resume(k, {[op |-> "clearAsset", pc |-> "publish",
                       msg |-> ClearMessage("clear-asset", <<k.id>>)]})

\* clearSymbol: id = await HGET symbols symbol; null -> return
clearSymbol(symbol) ==
    StartClear(IF symbols[symbol] = NoId THEN {}
               ELSE {[op |-> "clearSymbol", pc |-> "get", id |-> symbols[symbol]]})

\* clearSymbol: await clearAsset(id), up to clearAsset's getAsset
clearSymbolGet ==
    \E k \in clearing :
        /\ k.op = "clearSymbol" /\ k.pc = "get"
        /\ UNCHANGED <<assets, catIndex, symbols, channel>>
        /\ Resume(k, clearAssetGet(k.id))

\* faulty variant: the call returns without its publish
clearPublishSilent ==
    \E k \in clearing :
        /\ k.pc = "publish"
        /\ UNCHANGED <<assets, catIndex, symbols, channel>>
        /\ Resume(k, {})

\* the redisPublisher.publish that ends a clear
clearPublish ==
    \E k \in clearing :
        /\ k.pc = "publish"
        /\ channel' = Append(channel, k.msg)
        /\ UNCHANGED <<assets, catIndex, symbols>>
        /\ Resume(k, {})

ClearAll == clearAll
ClearCategory == \E c \in Categories : clearCategory(c)
ClearAsset == \E id \in Ids : clearAsset(id)
ClearSymbol == \E s \in Symbols : clearSymbol(s)

(***************************************************************************)
(* index.ts: setupWebSocketServer, the per-socket handlers                 *)
(***************************************************************************)
Connected(c) == clientState[c] = "connected"

\* socket.emit: a packet for a socket that is gone is dropped
EmitTo(c, event, payload) ==
    IF Connected(c) THEN {[to |-> c, event |-> event, assets |-> payload]} ELSE {}

\* io.to(room).emit: every socket currently in the room
EmitRoom(room, event, payload) ==
    {[to |-> c, event |-> event, assets |-> payload] : c \in {x \in Clients : room \in rooms[x]}}

\* io.on('connection'): the socket's subscription record is created
Connect ==
    /\ phase # "closed"
    /\ \E c \in Clients :
          /\ clientState[c] = "new"
          /\ clientState' = [clientState EXCEPT ![c] = "connected"]
    /\ UNCHANGED <<subs, rooms, subscriptions, subscribing, handling, nsubs>>
    /\ UNCHANGED <<storeVars, turboVars, budget, supVars, pollVars, lifeVars, feedVars, pushVars>>
    /\ Quiet

\* faulty variant: the handler does not join the room
SubscribeWithoutJoin(c, room, newSubs, newCounters, k) ==
    /\ Connected(c)
    /\ nsubs < MaxSubscribes
    /\ k @@ [client |-> c] \notin subscribing
    /\ nsubs' = nsubs + 1
    /\ rooms' = rooms
    /\ subs' = [subs EXCEPT ![c] = newSubs]
    /\ subscriptions' = newCounters
    /\ subscribing' = subscribing \cup {k @@ [client |-> c]}
    /\ UNCHANGED <<clientState, handling>>
    /\ UNCHANGED <<storeVars, turboVars, budget, supVars, pollVars, lifeVars, feedVars, pushVars>>
    /\ Quiet

\* a subscribe handler up to its await of the store read (a socket does not
\* repeat a request that is still being answered)
Subscribe(c, room, newSubs, newCounters, k) ==
    /\ Connected(c)
    /\ nsubs < MaxSubscribes
    /\ k @@ [client |-> c] \notin subscribing
    /\ nsubs' = nsubs + 1
    /\ rooms' = [rooms EXCEPT ![c] = @ \cup {room}]
    /\ subs' = [subs EXCEPT ![c] = newSubs]
    /\ subscriptions' = newCounters
    /\ subscribing' = subscribing \cup {k @@ [client |-> c]}
    /\ UNCHANGED <<clientState, handling>>
    /\ UNCHANGED <<storeVars, turboVars, budget, supVars, pollVars, lifeVars, feedVars, pushVars>>
    /\ Quiet

\* socket.on('subscribe:all')
SubscribeAll ==
    \E c \in Clients :
        Subscribe(c, <<"all-assets">>,
                  [subs[c] EXCEPT !.all = TRUE],
                  [subscriptions EXCEPT !.all = @ + 1],
                  [kind |-> "all"])

ValidCategories == {"crypto", "stocks", "forex", "indices", "commodities"}

\* socket.on('subscribe:category'); 'metals' is not a category it accepts
SubscribeCategory ==
    \E c \in Clients, category \in Categories \cup {"metals"} :
        IF category \notin ValidCategories
        THEN /\ Connected(c)
             /\ returnedIds' = {} /\ emitted' = EmitTo(c, <<"error">>, <<>>)
             /\ UNCHANGED <<storeVars, distVars, turboVars, budget, supVars, pollVars, lifeVars, feedVars, pushVars>>
        ELSE Subscribe(c, <<"category", category>>,
                       [subs[c] EXCEPT !.categories = @ \cup {category}],
                       [subscriptions EXCEPT !.categories[category] = @ + 1],
                       [kind |-> "category", category |-> category])

Modes == {"standard", "turbo"}

\* socket.on('subscribe:symbols'), {symbols, mode}
SubscribeSymbols ==
    \E c \in Clients, syms \in SUBSET Symbols, mode \in Modes :
        IF syms = {}
        THEN /\ Connected(c)
             /\ returnedIds' = {} /\ emitted' = EmitTo(c, <<"error">>, <<>>)
             /\ UNCHANGED <<storeVars, distVars, turboVars, budget, supVars, pollVars, lifeVars, feedVars, pushVars>>
        ELSE Subscribe(c, <<"symbols", syms>>,
                       [subs[c] EXCEPT !.symbols = @ \cup syms],
                       [subscriptions EXCEPT !.symbols =
                           [s \in Symbols |-> IF s \in syms THEN @[s] + 1 ELSE @[s]]],
                       [kind |-> "symbols", symbols |-> syms, mode |-> mode])

(***************************************************************************)
(* providers/index.ts: the turbo registry                                  *)
(***************************************************************************)
\* registerTurboClient: add the socket to each symbol's set and register a
\* 'disconnect' listener that removes it from those sets
registerTurboClient(c, syms) ==
    /\ directStreamSubscribers' =
          [s \in Symbols |-> IF s \in syms THEN directStreamSubscribers[s] \cup {c}
                             ELSE directStreamSubscribers[s]]
    /\ turboCleanup' = [turboCleanup EXCEPT ![c] = @ \cup {syms}]

\* faulty variant: each asset to every socket that subscribed to its symbol,
\* registered for turbo or not
streamToSymbolSubscribers(batch) ==
    UNION {EmitTo(c, <<"turbo:update">>, <<batch[i]>>) :
             <<i, c>> \in {p \in (1..Len(batch)) \X Clients :
                              batch[p[1]].symbol \in subs[p[2]].symbols}}

\* streamToTurboSubscribers: each asset to every socket registered for its symbol
streamToTurboSubscribers(batch) ==
    UNION {EmitTo(c, <<"turbo:update">>, <<batch[i]>>) :
             <<i, c>> \in {p \in (1..Len(batch)) \X Clients :
                              p[2] \in directStreamSubscribers[batch[p[1]].symbol]}}

(***************************************************************************)
(* index.ts: the subscribe handlers after their store read                 *)
(***************************************************************************)
\* subscribe:all after `await getAllAssets()`
SnapshotAll ==
    \E k \in subscribing :
        /\ k.kind = "all"
        /\ phase # "closed"
        /\ returnedIds' = {} /\ emitted' = EmitTo(k.client, <<"data:all">>, getAllAssets)
        /\ subscribing' = subscribing \ {k}
        /\ UNCHANGED <<clientState, subs, rooms, subscriptions, handling, nsubs>>
        /\ UNCHANGED <<storeVars, turboVars, budget, supVars, pollVars, lifeVars, feedVars, pushVars>>

\* subscribe:category after `await getAssetsByCategory(category)`
SnapshotCategory ==
    \E k \in subscribing :
        /\ k.kind = "category"
        /\ phase # "closed"
        /\ returnedIds' = {} /\ emitted' = EmitTo(k.client, <<"data:category", k.category>>,
                             getAssetsByCategory(k.category))
        /\ subscribing' = subscribing \ {k}
        /\ UNCHANGED <<clientState, subs, rooms, subscriptions, handling, nsubs>>
        /\ UNCHANGED <<storeVars, turboVars, budget, supVars, pollVars, lifeVars, feedVars, pushVars>>

\* subscribe:symbols after `await getAssetsBySymbols(cleanSymbols)`: the
\* snapshot, then the turbo registration when mode is 'turbo'
SnapshotSymbols ==
    \E k \in subscribing :
        /\ k.kind = "symbols"
        /\ phase # "closed"
        /\ returnedIds' = {} /\ emitted' = EmitTo(k.client, <<"data:symbols">>, getAssetsBySymbols(SetToSeq(k.symbols)))
        /\ subscribing' = subscribing \ {k}
        /\ IF k.mode = "turbo"
           THEN /\ subs' = [subs EXCEPT ![k.client].turboMode = TRUE]
                /\ registerTurboClient(k.client, k.symbols)
           ELSE UNCHANGED <<subs, turboVars>>
        /\ UNCHANGED <<clientState, rooms, subscriptions, handling, nsubs>>
        /\ UNCHANGED <<storeVars, budget, supVars, pollVars, lifeVars, feedVars, pushVars>>

\* a subscribe handler whose store read is rejected because the store
\* connection was closed: the handler has no catch and emits nothing
SnapshotFails ==
    \E k \in subscribing :
        /\ phase = "closed"
        /\ subscribing' = subscribing \ {k}
        /\ UNCHANGED <<clientState, subs, rooms, subscriptions, handling, nsubs>>
        /\ UNCHANGED <<storeVars, turboVars, budget, supVars, pollVars, lifeVars, feedVars, pushVars>>
        /\ Quiet

Dec(n) == IF n > 0 THEN n - 1 ELSE n

\* faulty variant: the 'all' counter is decremented for every socket that
\* disconnects, subscribed to all or not
DisconnectUncounted ==
    \E c \in Clients :
        /\ Connected(c)
        /\ clientState' = [clientState EXCEPT ![c] = "disconnected"]
        /\ rooms' = [rooms EXCEPT ![c] = {}]
        /\ subscriptions' =
              [all |-> Dec(subscriptions.all),
               categories |-> [k \in Categories |->
                                 IF k \in subs[c].categories
                                 THEN Dec(subscriptions.categories[k])
                                 ELSE subscriptions.categories[k]],
               symbols |-> [s \in Symbols |->
                              IF s \in subs[c].symbols
                              THEN Dec(subscriptions.symbols[s])
                              ELSE subscriptions.symbols[s]]]
        /\ directStreamSubscribers' =
              [s \in Symbols |-> IF \E syms \in turboCleanup[c] : s \in syms
                                 THEN directStreamSubscribers[s] \ {c}
                                 ELSE directStreamSubscribers[s]]
        /\ UNCHANGED <<subs, subscribing, handling, nsubs, turboCleanup>>
        /\ UNCHANGED <<storeVars, budget, supVars, pollVars, lifeVars, feedVars, pushVars>>
        /\ Quiet

\* socket.on('disconnect'): the counter bookkeeping of index.ts, then the
\* listeners registerTurboClient added; Socket.IO takes the socket out of its rooms
Disconnect ==
    \E c \in Clients :
        /\ Connected(c)
        /\ clientState' = [clientState EXCEPT ![c] = "disconnected"]
        /\ rooms' = [rooms EXCEPT ![c] = {}]
        /\ subscriptions' =
              [all |-> IF subs[c].all THEN subscriptions.all - 1 ELSE subscriptions.all,
               categories |-> [k \in Categories |->
                                 IF k \in subs[c].categories
                                 THEN Dec(subscriptions.categories[k])
                                 ELSE subscriptions.categories[k]],
               symbols |-> [s \in Symbols |->
                              IF s \in subs[c].symbols
                              THEN Dec(subscriptions.symbols[s])
                              ELSE subscriptions.symbols[s]]]
        /\ directStreamSubscribers' =
              [s \in Symbols |-> IF \E syms \in turboCleanup[c] : s \in syms
                                 THEN directStreamSubscribers[s] \ {c}
                                 ELSE directStreamSubscribers[s]]
        /\ UNCHANGED <<subs, subscribing, handling, nsubs, turboCleanup>>
        /\ UNCHANGED <<storeVars, budget, supVars, pollVars, lifeVars, feedVars, pushVars>>
        /\ Quiet

(***************************************************************************)
(* index.ts: redisService.subscribe(async (update) => ...)                 *)
(***************************************************************************)
\* the callback up to `await getAssetsByIds(assetIds)`: the message is taken
\* off the channel and, for type 'update', the mget runs against the store
OnMessage ==
    /\ channel # <<>>
    /\ channel' = Tail(channel)
    /\ handling' = IF Head(channel).type = "update"
                   THEN Append(handling, [msg |-> Head(channel),
                                          updatedAssets |-> getAssetsByIds(Head(channel).assets)])
                   ELSE handling
    /\ UNCHANGED <<assets, catIndex, symbols, storeUp, wseq, lastWrite, updating,
                   clearing, nclears>>
    /\ UNCHANGED <<clientState, subs, rooms, subscriptions, subscribing, nsubs>>
    /\ UNCHANGED <<turboVars, budget, supVars, pollVars, lifeVars, feedVars, pushVars>>
    /\ Quiet

\* faulty variant: the resolved assets are not grouped
NotGrouped(updatedAssets, category) == updatedAssets

\* byCategory[c]: the resolved assets of category c, in order
ByCategory(updatedAssets, category) ==
    SelectSeq(updatedAssets, LAMBDA a : a.category = category)

\* faulty variant: the 'all-assets' emit is gated on a second subscriber
UpdateEmitsGatedLate(updatedAssets) ==
    IF updatedAssets = <<>> THEN {}
    ELSE (IF subscriptions.all > 1
          THEN EmitRoom(<<"all-assets">>, <<"data:update">>, updatedAssets)
          ELSE {})
         \cup UNION {IF ByCategory(updatedAssets, c) # <<>> /\ subscriptions.categories[c] > 0
                     THEN EmitRoom(<<"category", c>>, <<"data:category:update", c>>,
                                   ByCategory(updatedAssets, c))
                     ELSE {} : c \in Categories}

\* the emits of the callback once the mget reply is in
UpdateEmits(updatedAssets) ==
    IF updatedAssets = <<>> THEN {}
    ELSE (IF subscriptions.all > 0
          THEN EmitRoom(<<"all-assets">>, <<"data:update">>, updatedAssets)
          ELSE {})
         \cup UNION {IF ByCategory(updatedAssets, c) # <<>> /\ subscriptions.categories[c] > 0
                     THEN EmitRoom(<<"category", c>>, <<"data:category:update", c>>,
                                   ByCategory(updatedAssets, c))
                     ELSE {} : c \in Categories}

EmitUpdate ==
    /\ handling # <<>>
    /\ handling' = Tail(handling)
    /\ returnedIds' = {} /\ emitted' = UpdateEmits(Head(handling).updatedAssets)
    /\ UNCHANGED <<clientState, subs, rooms, subscriptions, subscribing, nsubs>>
    /\ UNCHANGED <<storeVars, turboVars, budget, supVars, pollVars, lifeVars, feedVars, pushVars>>

(***************************************************************************)
(* providers/index.ts: ingestion                                           *)
(***************************************************************************)
\* the batch a connector's transform produces for the ids b
Produced(b) == [i \in 1..Len(b) |-> Asset(b[i], wseq + 1)]

\* connection.on('data') of setupWebSocketConnection, up to the await inside
\* updateAssets
PushData ==
    /\ wseq < budget
    /\ \E b \in Batches : updateAssets(Produced(b), "push")
    /\ UNCHANGED <<distVars, turboVars, budget, supVars, pollVars, lifeVars, feedVars, pushVars>>
    /\ Quiet

\* lists of records as any caller may hand them to updateAssets: up to
\* MaxBatch records, repeated ids allowed, each with or without its id
RawBatches == UNION {[1..n -> Ids \X BOOLEAN] : n \in 1..MaxBatch}

RawProduced(b) ==
    [i \in 1..Len(b) |-> IF b[i][2] THEN Asset(b[i][1], wseq + 1)
                         ELSE [Asset(b[i][1], wseq + 1) EXCEPT !.id = NoId]]

\* updateAssets called with a non-empty list, up to `await pipeline.exec()`
CallUpdateAssets ==
    /\ wseq < budget
    /\ \E b \in RawBatches : updateAssets(RawProduced(b), "api")
    /\ UNCHANGED <<distVars, turboVars, budget, supVars, pollVars, lifeVars, feedVars, pushVars>>
    /\ Quiet

\* updateAssets called with an empty list: it warns and returns [] at once
CallUpdateAssetsEmpty ==
    /\ returnedIds' = {<<>>}
    /\ emitted' = {}
    /\ UNCHANGED <<storeVars, distVars, turboVars, budget, supVars, pollVars, lifeVars, feedVars, pushVars>>

\* the batch a poll fetch returns for a category
CategoryBatches(category) == {b \in Batches : \A i \in 1..Len(b) : CategoryOf(b[i]) = category}

\* fetchAndUpdateFromApi (a scheduled tick, refreshCategory or refreshAll), from
\* the fetch result to the await inside updateAssets; an error response or an
\* empty list returns false at once
FetchAndUpdateFromApi ==
    /\ wseq < budget
    /\ \E category \in Categories, result \in {"error", "empty", "assets"} :
          IF result = "assets"
          THEN \E b \in CategoryBatches(category) : updateAssets(Produced(b), "poll")
          ELSE UNCHANGED storeVars
    /\ UNCHANGED <<distVars, turboVars, budget, supVars, pollVars, lifeVars, feedVars, pushVars>>
    /\ Quiet

\* what the caller of updateAssets emits when it resumes: the push handler
\* calls streamToTurboSubscribers after the awaited updateAssets returned, and
\* its catch block emits nothing; fetchAndUpdateFromApi only returns
ResumeEmits(k) ==
    IF k.origin = "push" /\ k.ok /\ storeUp
    THEN streamToTurboSubscribers(k.batch)
    ELSE {}

\* what fetchAndUpdateFromApi returns when it resumes after its awaited
\* updateAssets: true when the call returned, and false from its catch block
\* when the call threw
ResumeReturns(k) == IF k.ok /\ storeUp THEN "true" ELSE "false"

\* faulty variant: the awaited store calls of different updateAssets calls
\* complete in any order
PublishUnordered ==
    /\ \E i \in 1..Len(updating) :
          /\ channel' = IF updating[i].ok /\ storeUp
                        THEN Append(channel, UpdateMessage(AssetIds(updating[i].batch), updating[i].w))
                        ELSE channel
          /\ updating' = SubSeq(updating, 1, i - 1) \o SubSeq(updating, i + 1, Len(updating))
          /\ emitted' = ResumeEmits(updating[i])
          /\ returnedIds' = Returns(updating[i])
    /\ UNCHANGED <<assets, catIndex, symbols, storeUp, wseq, lastWrite, clearing, nclears>>
    /\ UNCHANGED <<distVars, turboVars, budget, supVars, pollVars, lifeVars, feedVars, pushVars>>

\* updateAssets from `await publishAssetUpdate(assetIds)` to its return, and
\* the caller's code after its await
Publish ==
    /\ updating # <<>>
    /\ publishAssetUpdate(Head(updating))
    /\ emitted' = ResumeEmits(Head(updating))
    /\ returnedIds' = Returns(Head(updating))
    /\ UNCHANGED <<distVars, turboVars, budget, supVars, pollVars, lifeVars, feedVars, pushVars>>

\* the store becomes unavailable / available again
StoreDown ==
    /\ storeUp
    /\ storeUp' = FALSE
    /\ UNCHANGED <<assets, catIndex, symbols, channel, wseq, lastWrite, updating,
                   clearing, nclears>>
    /\ UNCHANGED <<distVars, turboVars, budget, supVars, pollVars, lifeVars, feedVars, pushVars>>
    /\ Quiet

StoreBack ==
    /\ ~storeUp
    /\ storeUp' = TRUE
    /\ UNCHANGED <<assets, catIndex, symbols, channel, wseq, lastWrite, updating,
                   clearing, nclears>>
    /\ UNCHANGED <<distVars, turboVars, budget, supVars, pollVars, lifeVars, feedVars, pushVars>>
    /\ Quiet

(***************************************************************************)
(* providers/: reconnection of a push connector.  Three pieces of code      *)
(* schedule reconnects: the manager's setupWebSocketConnection, the CEX.IO  *)
(* provider's handleReconnection and BaseProvider.attemptReconnect.  A      *)
(* delay of base * 1.5^k milliseconds is held exactly, as the integer       *)
(* delay * 2^MaxExp.                                                        *)
(***************************************************************************)
Paths == {"manager", "cexio", "base"}

\* BaseProvider of provider.ts (the manager's provider)
maxRetries == 5
retryDelay == 5000
\* WS_CONFIG of cexio/constants.ts
WS_CONFIG == [reconnectDelay |-> 1000, maxReconnectAttempts |-> 10]
\* BaseProvider of base-provider.ts
maxReconnectAttempts == 10
reconnectInterval == 1000

\* the largest exponent a delay is computed with
MaxExp == WS_CONFIG.maxReconnectAttempts

RECURSIVE Pow(_, _)
Pow(b, e) == IF e = 0 THEN 1 ELSE b * Pow(b, e - 1)

Min(a, b) == IF a < b THEN a ELSE b

\* base * Math.pow(1.5, k), times 2^MaxExp
ExpDelay(base, k) == base * Pow(3, k) * Pow(2, MaxExp - k)

\* a delay of ms milliseconds, times 2^MaxExp
Millis(ms) == ms * Pow(2, MaxExp)

\* setTimeout(reconnect, delay) on path p, after n consecutive failures
SetTimeout(p, n, delay) == timers' = timers \cup {[path |-> p, n |-> n, delay |-> delay]}

\* a step of the supervision touches neither the store nor the sockets
Supervise ==
    /\ UNCHANGED <<storeVars, distVars, turboVars, budget, pollVars, lifeVars, feedVars, pushVars>>
    /\ Quiet

\* setupWebSocketConnection: `await provider.connectWebSocket()` resolved;
\* the handlers are registered and provider.retryCount = 0
setupWebSocketConnection ==
    /\ link["manager"] = "connecting"
    /\ opens < MaxOpens
    /\ opens' = opens + 1
    /\ link' = [link EXCEPT !["manager"] = "connected"]
    /\ retryCount' = 0
    /\ failures' = [failures EXCEPT !["manager"] = 0]
    /\ UNCHANGED <<reconnectAttempts, timers>>
    /\ Supervise

\* setupWebSocketConnection, catch branch: the connect threw
setupWebSocketConnectionCatch ==
    /\ link["manager"] = "connecting"
    /\ failures' = [failures EXCEPT !["manager"] = @ + 1]
    /\ IF retryCount < maxRetries
       THEN /\ SetTimeout("manager", failures["manager"] + 1, ExpDelay(retryDelay, retryCount))
            /\ retryCount' = retryCount + 1
            /\ link' = [link EXCEPT !["manager"] = "backoff"]
       ELSE /\ link' = [link EXCEPT !["manager"] = "failed"]
            /\ UNCHANGED <<retryCount, timers>>
    /\ UNCHANGED reconnectAttempts
    /\ UNCHANGED opens
    /\ Supervise

\* connection.on('disconnect'): setTimeout(..., provider.retryDelay)
OnDisconnect ==
    /\ link["manager"] = "connected"
    /\ SetTimeout("manager", failures["manager"], Millis(retryDelay))
    /\ link' = [link EXCEPT !["manager"] = "reconnect"]
    /\ UNCHANGED <<retryCount, reconnectAttempts, failures>>
    /\ UNCHANGED opens
    /\ Supervise

\* the manager's timer fires: the disconnect handler's callback increments
\* provider.retryCount first; both call setupWebSocketConnection
RetryTimer ==
    /\ link["manager"] \in {"backoff", "reconnect"}
    /\ retryCount' = IF link["manager"] = "reconnect" THEN retryCount + 1 ELSE retryCount
    /\ link' = [link EXCEPT !["manager"] = "connecting"]
    /\ UNCHANGED <<reconnectAttempts, failures, timers>>
    /\ UNCHANGED opens
    /\ Supervise

\* CexioWebSocketConnection.connect: ws 'open' resolves the connect
CexioOpen ==
    /\ link["cexio"] = "connecting"
    /\ opens < MaxOpens
    /\ opens' = opens + 1
    /\ link' = [link EXCEPT !["cexio"] = "connected"]
    /\ failures' = [failures EXCEPT !["cexio"] = 0]
    /\ UNCHANGED <<retryCount, reconnectAttempts, timers>>
    /\ Supervise

\* connection.on('connected'): the server's greeting resets reconnectAttempts
CexioConnected ==
    /\ link["cexio"] = "connected"
    /\ reconnectAttempts["cexio"] # 0
    /\ reconnectAttempts' = [reconnectAttempts EXCEPT !["cexio"] = 0]
    /\ UNCHANGED <<retryCount, link, failures, timers>>
    /\ UNCHANGED opens
    /\ Supervise

\* ws 'close' (after a failed connect or on an open connection) runs the
\* reconnect callback: handleReconnection
handleReconnection ==
    /\ link["cexio"] \in {"connecting", "connected"}
    /\ failures' = [failures EXCEPT !["cexio"] = IF link["cexio"] = "connecting" THEN @ + 1 ELSE @]
    /\ IF reconnectAttempts["cexio"] >= WS_CONFIG.maxReconnectAttempts
       THEN /\ link' = [link EXCEPT !["cexio"] = "failed"]
            /\ UNCHANGED <<reconnectAttempts, timers>>
       ELSE /\ reconnectAttempts' = [reconnectAttempts EXCEPT !["cexio"] = @ + 1]
            /\ SetTimeout("cexio", failures'["cexio"],
                          ExpDelay(WS_CONFIG.reconnectDelay, reconnectAttempts["cexio"] + 1))
            /\ link' = [link EXCEPT !["cexio"] = "backoff"]
    /\ UNCHANGED retryCount
    /\ UNCHANGED opens
    /\ Supervise

\* BaseProvider.connectWebSocket: ws 'open' sets reconnectAttempts = 0
BaseOpen ==
    /\ link["base"] = "connecting"
    /\ opens < MaxOpens
    /\ opens' = opens + 1
    /\ link' = [link EXCEPT !["base"] = "connected"]
    /\ reconnectAttempts' = [reconnectAttempts EXCEPT !["base"] = 0]
    /\ failures' = [failures EXCEPT !["base"] = 0]
    /\ UNCHANGED <<retryCount, timers>>
    /\ Supervise

\* ws 'close' -> BaseProvider.attemptReconnect
attemptReconnect ==
    /\ link["base"] \in {"connecting", "connected"}
    /\ failures' = [failures EXCEPT !["base"] = IF link["base"] = "connecting" THEN @ + 1 ELSE @]
    /\ IF reconnectAttempts["base"] >= maxReconnectAttempts
       THEN /\ link' = [link EXCEPT !["base"] = "failed"]
            /\ UNCHANGED <<reconnectAttempts, timers>>
       ELSE /\ reconnectAttempts' = [reconnectAttempts EXCEPT !["base"] = @ + 1]
            /\ SetTimeout("base", failures'["base"],
                          Millis(reconnectInterval * Min(reconnectAttempts["base"] + 1, 10)))
            /\ link' = [link EXCEPT !["base"] = "backoff"]
    /\ UNCHANGED retryCount
    /\ UNCHANGED opens
    /\ Supervise

\* the connector's own timer fires: connectWebSocket is called again
ReconnectTimer ==
    /\ \E p \in {"cexio", "base"} :
          /\ link[p] = "backoff"
          /\ link' = [link EXCEPT ![p] = "connecting"]
    /\ UNCHANGED <<retryCount, reconnectAttempts, failures, timers>>
    /\ UNCHANGED opens
    /\ Supervise

(***************************************************************************)
(* providers/: polling.  ProviderManager.initialize sets up the categories  *)
(* one after the other; a category in 'api' mode gets an awaited first      *)
(* fetch and then a setInterval timer.  Every fetch of the                  *)
(* FinancialModelingPrep provider goes through the one circuit breaker the  *)
(* provider constructs (library 'opossum'); the breaker's own behaviour is  *)
(* taken from the specification's description of it.                        *)
(***************************************************************************)
\* number of fetchAndUpdateFromApi calls explored
MaxFetches == 4

\* this.categories of the manager, restricted to the modelled categories; both
\* are mapped to the same provider, as stocks and forex are by default
PollOrder == <<"crypto", "stocks">>

\* the options the provider passes to the CircuitBreaker constructor
BreakerOptions == [timeout |-> 10000, errorThresholdPercentage |-> 50, resetTimeout |-> 30000]

\* Closed: calls pass; Open: calls fail fast; HalfOpen: one trial call passes
BreakerAdmits(b) == b.state = "closed" \/ (b.state = "halfOpen" /\ b.trial = "allowed")

\* circuitBreaker.fire: [admitted, trial, breaker after the call was taken]
fire(b) ==
    IF BreakerAdmits(b)
    THEN [admitted |-> TRUE, trial |-> b.state = "halfOpen",
          breaker |-> [b EXCEPT !.fires = @ + 1,
                                !.trial = IF b.state = "halfOpen" THEN "running" ELSE @]]
    ELSE [admitted |-> FALSE, trial |-> FALSE, breaker |-> b]

\* the breaker after a call it admitted has settled; seen is "resolved",
\* "rejected" (the wrapped function threw) or "timeout" (options.timeout passed)
Settle(b, trial, seen) ==
    IF seen = "resolved"
    THEN IF trial /\ b.state = "halfOpen"
         THEN [state |-> "closed", trial |-> "none", fires |-> 0, failures |-> 0]
         ELSE b
    ELSE LET f == b.failures + 1
         IN IF trial /\ b.state = "halfOpen"
            THEN [b EXCEPT !.state = "open", !.trial = "none", !.failures = f]
            ELSE IF b.state = "closed"
                    /\ f * 100 > BreakerOptions.errorThresholdPercentage * b.fires
                 THEN [b EXCEPT !.state = "open", !.failures = f]
                 ELSE [b EXCEPT !.failures = f]

\* faulty variant: the failure of the upstream request is swallowed
makeApiRequestSwallows(upstream) == "resolved"

\* makeApiRequest, the function the breaker wraps: axios.get resolves with
\* the data or the error is logged and thrown again
makeApiRequest(upstream) == IF upstream = "error" THEN "rejected" ELSE "resolved"

\* faulty variant: the request is made directly, as OandaProvider does
fmpRequestsDirectly(b) == [admitted |-> TRUE, trial |-> FALSE, breaker |-> b]

\* FinancialModelingPrepProvider.getAssetsByCategory up to its await: the
\* request is handed to circuitBreaker.fire
fmpGetAssetsByCategory(b) == fire(b)

\* fetchAndUpdateFromApi up to its first suspension.  An admitted call waits
\* for the upstream; a call the breaker rejects resumes in the same task:
\* getAssetsByCategory returns handleError(...) and fetchAndUpdateFromApi
\* returns false.
StartFetch(category, kind) ==
    LET f == fmpGetAssetsByCategory(breaker)
        n == nfetch + 1
    IN /\ nfetch < MaxFetches
       /\ nfetch' = n
       /\ breaker' = f.breaker
       /\ IF f.admitted
          THEN /\ requests' = requests \cup {[n |-> n, category |-> category, kind |-> kind,
                                               trial |-> f.trial]}
               /\ returned' = {}
               /\ polling' = [polling EXCEPT ![category] = IF kind = "first" THEN "first" ELSE @]
          ELSE /\ requests' = requests
               /\ returned' = {[n |-> n, category |-> category, kind |-> kind,
                                trial |-> FALSE, result |-> "rejected"]}
               /\ polling' = [polling EXCEPT ![category] = IF kind = "first" THEN "interval" ELSE @]
       /\ UNCHANGED failedOf

\* initialize: `for (const category of this.categories) await
\* initializeCategory(category)`; setupApiPolling starts the first fetch of a
\* category once every earlier category has its interval timer
PollFirst ==
    /\ \E i \in 1..Len(PollOrder) :
          /\ polling[PollOrder[i]] = "none"
          /\ \A j \in 1..(i - 1) : polling[PollOrder[j]] = "interval"
          /\ StartFetch(PollOrder[i], "first")
    /\ UNCHANGED <<storeVars, distVars, turboVars, budget, supVars, lifeVars, feedVars, pushVars>>
    /\ Quiet

\* the setInterval callback of setupApiPolling
PollTick ==
    /\ \E category \in Categories :
          /\ polling[category] = "interval"
          /\ StartFetch(category, "tick")
    /\ UNCHANGED <<storeVars, distVars, turboVars, budget, supVars, lifeVars, feedVars, pushVars>>
    /\ Quiet

\* refreshCategory: a manual fetch of one category; refreshAll makes the same
\* call for one category after the other.  categoryProviders is filled right
\* before initialize starts the first category.
RefreshCategory ==
    /\ polling[PollOrder[1]] # "none"
    /\ \E category \in Categories : StartFetch(category, "refresh")
    /\ UNCHANGED <<storeVars, distVars, turboVars, budget, supVars, lifeVars, feedVars, pushVars>>
    /\ Quiet

\* An upstream request settles (data, an empty list, an error or no answer
\* within options.timeout) and the suspended callers resume:
\* getAssetsByCategory returns the transformed list or handleError(...),
\* fetchAndUpdateFromApi returns false or goes on to updateAssets; a first
\* fetch lets setupApiPolling set the interval timer.
Respond ==
    \E r \in requests, upstream \in {"assets", "empty", "error", "timeout"} :
        LET seen == IF upstream = "timeout" THEN "timeout" ELSE makeApiRequest(upstream)
        IN /\ requests' = requests \ {r}
           /\ breaker' = Settle(breaker, r.trial, seen)
           /\ failedOf' = [failedOf EXCEPT ![r.category] = @ \/ seen # "resolved"]
           /\ polling' = [polling EXCEPT ![r.category] = IF r.kind = "first" THEN "interval" ELSE @]
           /\ returned' = {[n |-> r.n, category |-> r.category, kind |-> r.kind,
                            trial |-> r.trial,
                            result |-> IF seen # "resolved" THEN "failed" ELSE upstream]}
           /\ IF seen = "resolved" /\ upstream = "assets"
              THEN /\ wseq < budget
                   /\ \E b \in CategoryBatches(r.category) : updateAssets(Produced(b), "poll")
              ELSE UNCHANGED storeVars
           /\ UNCHANGED nfetch
           /\ UNCHANGED <<distVars, turboVars, budget, supVars, lifeVars, feedVars, pushVars>>
           /\ Quiet

\* fetchAndUpdateFromApi with a connector that has no breaker, up to its
\* suspension: CexioProvider.getAssetsByCategory awaits axios.post in
\* fetchTickerDataViaApi, OandaProvider's awaits axios.get in makeApiRequest;
\* neither request is given a timeout
DirectFetch(category, kind) ==
    /\ nfetch < MaxFetches
    /\ nfetch' = nfetch + 1
    /\ requests' = requests \cup {[n |-> nfetch + 1, category |-> category, kind |-> kind,
                                    trial |-> FALSE]}
    /\ returned' = {}
    /\ polling' = [polling EXCEPT ![category] = IF kind = "first" THEN "first" ELSE @]
    /\ UNCHANGED <<breaker, failedOf>>

\* setupApiPolling for the category of such a connector: the first fetch
PollFirstDirect ==
    /\ polling[PollOrder[1]] = "none"
    /\ DirectFetch(PollOrder[1], "first")
    /\ UNCHANGED <<storeVars, distVars, turboVars, budget, supVars, lifeVars, feedVars, pushVars>>
    /\ Quiet

\* the setInterval callback of setupApiPolling for such a connector
PollTickDirect ==
    /\ polling[PollOrder[1]] = "interval"
    /\ DirectFetch(PollOrder[1], "tick")
    /\ UNCHANGED <<storeVars, distVars, turboVars, budget, supVars, lifeVars, feedVars, pushVars>>
    /\ Quiet

\* the upstream answers a request of such a connector (data, an empty list or
\* an error) and fetchAndUpdateFromApi resumes; nothing else settles it
RespondDirect ==
    \E r \in requests, upstream \in {"assets", "empty", "error"} :
        /\ requests' = requests \ {r}
        /\ failedOf' = [failedOf EXCEPT ![r.category] = @ \/ upstream = "error"]
        /\ polling' = [polling EXCEPT ![r.category] = IF r.kind = "first" THEN "interval" ELSE @]
        /\ returned' = {[n |-> r.n, category |-> r.category, kind |-> r.kind,
                         trial |-> FALSE,
                         result |-> IF upstream = "error" THEN "failed" ELSE upstream]}
        /\ IF upstream = "assets"
           THEN /\ wseq < budget
                /\ \E b \in CategoryBatches(r.category) : updateAssets(Produced(b), "poll")
           ELSE UNCHANGED storeVars
        /\ UNCHANGED <<breaker, nfetch>>
        /\ UNCHANGED <<distVars, turboVars, budget, supVars, lifeVars, feedVars, pushVars>>
        /\ Quiet

\* options.resetTimeout after the breaker opened: HalfOpen, one trial allowed
Cooldown ==
    /\ breaker.state = "open"
    /\ breaker' = [breaker EXCEPT !.state = "halfOpen", !.trial = "allowed"]
    /\ UNCHANGED <<polling, requests, nfetch, failedOf, returned>>
    /\ UNCHANGED <<storeVars, distVars, turboVars, budget, supVars, lifeVars, feedVars, pushVars>>
    /\ Quiet

\* the rolling window moves past the calls counted so far
WindowRoll ==
    /\ breaker.fires > 0 \/ breaker.failures > 0
    /\ breaker' = [breaker EXCEPT !.fires = 0, !.failures = 0]
    /\ UNCHANGED <<polling, requests, nfetch, failedOf, returned>>
    /\ UNCHANGED <<storeVars, distVars, turboVars, budget, supVars, lifeVars, feedVars, pushVars>>
    /\ Quiet

(***************************************************************************)
(* index.ts: gracefulShutdown, run on SIGTERM or SIGINT.  It awaits         *)
(* providerManager.shutdown(), then redisService.shutdown(), and only then  *)
(* calls server.close(); the Socket.IO server is not closed, and the        *)
(* process exits when the last connection has ended or after 10 seconds.    *)
(***************************************************************************)
Serve == UNCHANGED <<storeVars, distVars, budget, supVars, pollVars, feedVars, pushVars>> /\ Quiet

\* the signal handler up to `await providerManager.shutdown()`
gracefulShutdown ==
    /\ phase = "serving"
    /\ phase' = "providers"
    /\ UNCHANGED turboVars
    /\ Serve

\* redisService.shutdown returned: the three store connections have quit;
\* server.close() makes the HTTP server refuse new connections
RedisShutDown ==
    /\ phase = "redis"
    /\ phase' = "closed"
    /\ UNCHANGED turboVars
    /\ Serve

(***************************************************************************)
(* JavaScript values as the payloads and models.ts handle them.  A value   *)
(* carries its typeof; a string is either the decimal numeral of a number  *)
(* or some other non-empty text.                                           *)
(***************************************************************************)
Undefined == [t |-> "undefined"]
Null == [t |-> "object"]
Num(n) == [t |-> "number", n |-> n]
\* what JSON.parse gives for a numeral beyond the double range, e.g. 1e999
Infinity == [t |-> "number", inf |-> TRUE]
NaN == [t |-> "number", nan |-> TRUE]
Str(n) == [t |-> "string", n |-> n]
Text == [t |-> "string", text |-> TRUE]

typeof(v) == v.t

IsFinite(v) == v.t = "number" /\ "n" \in DOMAIN v

\* Number(v): a number is kept, a numeral is read, null is 0, anything else NaN
Number(v) ==
    IF v.t = "number" THEN v
    ELSE IF v.t = "string" /\ "n" \in DOMAIN v THEN Num(v.n)
    ELSE IF v = Null THEN Num(0)
    ELSE NaN

\* parseFloat(v): as Number, but null has no numeric prefix
parseFloat(v) == IF v = Null THEN NaN ELSE Number(v)

\* the truth value `!v`, `v || w` and `if (v)` test
Truthy(v) ==
    CASE v.t = "undefined" -> FALSE
      [] v.t = "object" -> FALSE
      [] v.t = "string" -> TRUE
      [] v.t = "number" -> IF IsFinite(v) THEN v.n # 0 ELSE v = Infinity

Or(v, w) == IF Truthy(v) THEN v ELSE w

\* Math.abs(v) > k, for a value of type number
AbsExceeds(v, k) ==
    IF IsFinite(v) THEN v.n > k \/ v.n < -k ELSE v = Infinity

\* Math.sign(v) * 100, for a value of type number
SignTimes100(v) ==
    IF IsFinite(v) THEN Num(IF v.n > 0 THEN 100 ELSE IF v.n < 0 THEN -100 ELSE 0)
    ELSE IF v = Infinity THEN Num(100) ELSE NaN

\* JSON.parse(JSON.stringify(v)) of a field: a non-finite number becomes null
Json(v) == IF v.t = "number" /\ ~IsFinite(v) THEN Null ELSE v

\* the spellings of the symbols a payload carries, and their two cases
Spellings == {"BTCUSD", "btcusd", "BtcUsd", "ETHUSD"}

toLowerCase(s) == IF s = "ETHUSD" THEN "ethusd" ELSE "btcusd"

toUpperCase(s) == IF s = "ETHUSD" THEN "ETHUSD" ELSE "BTCUSD"

(***************************************************************************)
(* models.ts.  The name of an asset is left out: every caller passes a     *)
(* non-empty string and nothing reads it.                                  *)
(***************************************************************************)
NoData ==
    [priceLow24h |-> Undefined, priceHigh24h |-> Undefined, change24h |-> Undefined,
     changePercent24h |-> Undefined, volume24h |-> Undefined]

\* `if (additionalData.f !== undefined) asset.f = Number(additionalData.f)`
Provided(v) == IF v = Undefined THEN Undefined ELSE Number(v)

\* faulty variant: the id is built from the symbol as it was passed
createAssetIdAsGiven(category, symbol, price, additionalData, now) ==
    [id |-> <<category, symbol>>,
     symbol |-> toUpperCase(symbol),
     category |-> category,
     price |-> Number(price),
     lastUpdated |-> now,
     priceLow24h |-> Provided(additionalData.priceLow24h),
     priceHigh24h |-> Provided(additionalData.priceHigh24h),
     change24h |-> Provided(additionalData.change24h),
     changePercent24h |-> Provided(additionalData.changePercent24h),
     volume24h |-> Provided(additionalData.volume24h)]

\* createAsset; now is the reading of the clock (new Date())
createAsset(category, symbol, price, additionalData, now) ==
    [id |-> <<category, toLowerCase(symbol)>>,
     symbol |-> toUpperCase(symbol),
     category |-> category,
     price |-> Number(price),
     lastUpdated |-> now,
     priceLow24h |-> Provided(additionalData.priceLow24h),
     priceHigh24h |-> Provided(additionalData.priceHigh24h),
     change24h |-> Provided(additionalData.change24h),
     changePercent24h |-> Provided(additionalData.changePercent24h),
     volume24h |-> Provided(additionalData.volume24h)]

\* the categories assetSchema accepts
SchemaCategories == {"crypto", "stocks", "forex", "indices", "commodities"}

\* Joi.number(): a finite number; .optional(): or absent
JoiNumber(v) == IsFinite(v)

JoiOptionalNumber(v) == v = Undefined \/ IsFinite(v)

\* faulty variant: the schema accepts every asset
validateAssetLax(asset) == [error |-> FALSE]

\* validateAsset: assetSchema.validate(asset), reduced to whether it reports an error
validateAsset(asset) ==
    [error |-> ~ /\ asset.category \in SchemaCategories
                 /\ JoiNumber(asset.price)
                 /\ JoiOptionalNumber(asset.priceLow24h)
                 /\ JoiOptionalNumber(asset.priceHigh24h)
                 /\ JoiOptionalNumber(asset.change24h)
                 /\ JoiOptionalNumber(asset.changePercent24h)
                 /\ JoiOptionalNumber(asset.volume24h)]

\* `v > 0` and `v < 0` for a number
Positive(v) == IF IsFinite(v) THEN v.n > 0 ELSE v = Infinity

Negative(v) == IsFinite(v) /\ v.n < 0

\* a category that has no entry yet gets one (count, totalVolume, gainers, losers at 0)
FreshEntry == [count |-> 0, totalVolume |-> 0, gainers |-> 0, losers |-> 0]

\* faulty variant: an asset that did not move is counted as a loser
StatsStepFlat(cat, asset) ==
    [count |-> cat.count + 1,
     totalVolume |-> IF Truthy(asset.volume24h) THEN cat.totalVolume + asset.volume24h.n
                     ELSE cat.totalVolume,
     gainers |-> IF Truthy(asset.changePercent24h) /\ Positive(asset.changePercent24h)
                 THEN cat.gainers + 1 ELSE cat.gainers,
     losers |-> IF Truthy(asset.changePercent24h) /\ Positive(asset.changePercent24h)
                THEN cat.losers ELSE cat.losers + 1]

\* the body of the forEach of generateAssetStats for one asset, on the entry
\* of its category
StatsStep(cat, asset) ==
    [count |-> cat.count + 1,
     totalVolume |-> IF Truthy(asset.volume24h) THEN cat.totalVolume + asset.volume24h.n
                     ELSE cat.totalVolume,
     gainers |-> IF Truthy(asset.changePercent24h) /\ Positive(asset.changePercent24h)
                 THEN cat.gainers + 1 ELSE cat.gainers,
     losers |-> IF Truthy(asset.changePercent24h) /\ Positive(asset.changePercent24h)
                THEN cat.losers
                ELSE IF Truthy(asset.changePercent24h) /\ Negative(asset.changePercent24h)
                THEN cat.losers + 1 ELSE cat.losers]

\* the forEach of generateAssetStats, from the entries built so far
RECURSIVE StatsOver(_, _)
StatsOver(list, categories) ==
    IF list = <<>> THEN categories
    ELSE LET a == Head(list)
             known == IF a.category \in DOMAIN categories THEN categories
                      ELSE categories @@ (a.category :> FreshEntry)
         IN StatsOver(Tail(list),
                      [known EXCEPT ![a.category] = StatsStep(known[a.category], a)])

\* an object without keys
EmptyObject == [c \in {} |-> FreshEntry]

\* generateAssetStats without its three timestamps
generateAssetStats(list) ==
    IF list = <<>>
    THEN [count |-> 0, categories |-> EmptyObject]
    ELSE [count |-> Len(list), categories |-> StatsOver(list, EmptyObject)]

(***************************************************************************)
(* The connectors' transform, one per provider class.  Every connector is  *)
(* asked for category 'crypto'.  A payload is an array; an element is null *)
(* or an object with the fields the transform reads (the further aliases   *)
(* of a field, read the same way, are left out).                           *)
(***************************************************************************)
FeedCategory == "crypto"

\* ALLOWED_ASSETS[FeedCategory], as far as the payloads name them
AllowedNames == {"BTCUSD", "ETHUSD"}

\* what a transform hands to its catch block when an element cannot be read
Thrown == <<[thrown |-> TRUE]>>

\* the accumulated assets once a[i] was handled without a throw
Pushed(list, asset) ==
    IF validateAsset(asset).error THEN list ELSE Append(list, asset)

\* ---- FinancialModelingPrepProvider (providers/financialmodelingprep)
\* the price of a quote, with the fallback 0
fmpPrice(item) ==
    IF typeof(item.price) = "number" THEN item.price
    ELSE IF typeof(item.currentPrice) = "number" THEN item.currentPrice
    ELSE Num(0)

\* faulty variant: the percentage is passed on as it came
fmpPercentUncapped(item) ==
    IF typeof(item.changesPercentage) = "number" THEN item.changesPercentage
    ELSE IF typeof(item.priceChangePercent) = "number" THEN item.priceChangePercent
    ELSE Undefined

\* additionalData.changePercent24h of a quote
fmpPercent(item) ==
    IF typeof(item.changesPercentage) = "number"
    THEN IF AbsExceeds(item.changesPercentage, 1000)
         THEN SignTimes100(item.changesPercentage)
         ELSE item.changesPercentage
    ELSE IF typeof(item.priceChangePercent) = "number"
    THEN IF AbsExceeds(item.priceChangePercent, 1000)
         THEN SignTimes100(item.priceChangePercent)
         ELSE item.priceChangePercent
    ELSE Undefined

fmpAsset(item, category, now) ==
    createAsset(category, item.symbol, fmpPrice(item),
                [NoData EXCEPT !.changePercent24h = fmpPercent(item),
                               !.volume24h = IF typeof(item.volume) = "number"
                                             THEN item.volume ELSE Undefined],
                now)

\* the for loop of transform; reading item.symbol of null throws
RECURSIVE fmpLoop(_, _, _, _)
fmpLoop(data, category, now, list) ==
    IF data = <<>> THEN list
    ELSE LET item == Head(data)
         IN IF item = Null THEN Thrown
            ELSE IF item.symbol = "" THEN fmpLoop(Tail(data), category, now, list)
            ELSE fmpLoop(Tail(data), category, now,
                         Pushed(list, fmpAsset(item, category, now)))

fmpTransform(data, category, now) ==
    IF data = <<>> THEN <<>>
    ELSE LET list == fmpLoop(data, category, now, <<>>)
         IN IF list = Thrown THEN <<>> ELSE list

\* ---- FinancialModelingPrepCryptoProvider (providers/crypto): data.map(...)
\* with the same body, then the nulls filtered out
fmpCryptoTransform(data, now) ==
    LET list == fmpLoop(data, FeedCategory, now, <<>>)
    IN IF list = Thrown THEN <<>> ELSE list

\* ---- CexioProvider (providers/cexio)
mapFromCexioSymbol(pair) ==
    CASE pair = "BTC-USD" -> "BTCUSD"
      [] pair = "ETH-USD" -> "ETHUSD"
      [] OTHER -> pair

cexioPrice(ticker) == Or(ticker.last, Or(ticker.price, Num(0)))

cexioAsset(pair, ticker, category, now) ==
    createAsset(category, mapFromCexioSymbol(pair), cexioPrice(ticker),
                [NoData EXCEPT !.changePercent24h =
                                   IF Truthy(ticker.priceChangePercentage)
                                   THEN ticker.priceChangePercentage ELSE Undefined,
                               !.volume24h = IF Truthy(ticker.volume)
                                             THEN ticker.volume ELSE Undefined],
                now)

\* tickerEntries of an array payload: [item.pair || '', item]; null throws
RECURSIVE cexioEntries(_)
cexioEntries(data) ==
    IF data = <<>> THEN <<>>
    ELSE IF Head(data) = Null THEN Thrown
    ELSE LET rest == cexioEntries(Tail(data))
         IN IF rest = Thrown THEN Thrown
            ELSE <<[pair |-> Head(data).pair, ticker |-> Head(data)]>> \o rest

\* the loop over tickerEntries, each entry in its own try
RECURSIVE cexioLoop(_, _, _, _)
cexioLoop(entries, category, now, list) ==
    IF entries = <<>> THEN list
    ELSE LET e == Head(entries)
             skip == \/ e.pair = ""
                     \/ e.ticker = Null
                     \/ Truthy(e.ticker.error)
                     \/ mapFromCexioSymbol(e.pair) \notin AllowedNames
         IN cexioLoop(Tail(entries), category, now,
                      IF skip THEN list
                      ELSE Pushed(list, cexioAsset(e.pair, e.ticker, category, now)))

\* data is an array of tickers, or an object keyed by pair (given as its entries)
cexioTransform(shape, data, category, now) ==
    LET entries == IF shape = "array" THEN cexioEntries(data) ELSE data
    IN IF entries = Thrown THEN <<>> ELSE cexioLoop(entries, category, now, <<>>)

\* ---- OandaProvider (providers/oanda)
\* the allowed asset whose formatOandaSymbol(name) is the instrument
oandaAssetInfo(instrument) ==
    CASE instrument = "BTC_USD" -> "BTCUSD"
      [] instrument = "ETH_USD" -> "ETHUSD"
      [] OTHER -> ""

\* (bestBid + bestAsk) / 2; the payloads quote even sums
midPrice(bid, ask) ==
    LET bestBid == parseFloat(bid)
        bestAsk == parseFloat(ask)
    IN IF IsFinite(bestBid) /\ IsFinite(bestAsk) THEN Num((bestBid.n + bestAsk.n) \div 2)
       ELSE IF bestBid = NaN \/ bestAsk = NaN THEN NaN
       ELSE Infinity

\* the for loop; a null element throws in the try and again in its catch
RECURSIVE oandaLoop(_, _, _, _)
oandaLoop(prices, category, now, list) ==
    IF prices = <<>> THEN list
    ELSE LET priceItem == Head(prices)
         IN IF priceItem = Null THEN Thrown
            ELSE IF ~priceItem.tradeable \/ oandaAssetInfo(priceItem.instrument) = ""
            THEN oandaLoop(Tail(prices), category, now, list)
            ELSE oandaLoop(Tail(prices), category, now,
                           Pushed(list,
                                  createAsset(category, oandaAssetInfo(priceItem.instrument),
                                              midPrice(priceItem.closeoutBid,
                                                       priceItem.closeoutAsk),
                                              NoData, now)))

oandaTransform(prices, category, now) ==
    IF prices = <<>> THEN <<>>
    ELSE LET list == oandaLoop(prices, category, now, <<>>)
         IN IF list = Thrown THEN <<>> ELSE list

Connectors == {"financialmodelingprep", "fmp-crypto", "cexio", "oanda"}

\* provider.transform of the connector a payload came from
transform(connector, shape, data, now) ==
    CASE connector = "financialmodelingprep" -> fmpTransform(data, FeedCategory, now)
      [] connector = "fmp-crypto" -> fmpCryptoTransform(data, now)
      [] connector = "cexio" -> cexioTransform(shape, data, FeedCategory, now)
      [] connector = "oanda" -> oandaTransform(data, FeedCategory, now)

(***************************************************************************)
(* The payloads explored, and a connector feeding the store: a payload     *)
(* arrives, is transformed, and the assets are written (updateAssets SETs  *)
(* JSON.stringify(asset) under the asset's id).                            *)
(***************************************************************************)
\* number of payloads one connector receives, and array length of a payload
MaxCalls == 2
MaxItems == 2

PriceValues == {Num(7), Undefined, Str(7), Text, Infinity}
PercentValues == {Undefined, Num(5000), Num(-5000), Num(500), Num(50)}

Quote(symbol, price, pct) ==
    [symbol |-> symbol, price |-> price, currentPrice |-> Undefined,
     changesPercentage |-> pct, priceChangePercent |-> Undefined, volume |-> Undefined]

FMPQuotes ==
    {Null, Quote("", Num(7), Num(50)), Quote("ETHUSD", Num(7), Num(50)),
     Quote("btcusd", Num(7), Num(50)),
     [Quote("BTCUSD", Undefined, Undefined) EXCEPT !.currentPrice = Num(9)],
     [Quote("BTCUSD", Num(7), Undefined) EXCEPT !.priceChangePercent = Num(5000)],
     [Quote("BTCUSD", Num(7), Str(50)) EXCEPT !.priceChangePercent = Num(-50),
                                              !.volume = Num(3)]}
      \cup {Quote("BTCUSD", p, c) : p \in PriceValues, c \in PercentValues}

Ticker(pair, last, pct) ==
    [pair |-> pair, last |-> last, price |-> Undefined, priceChangePercentage |-> pct,
     volume |-> Undefined, error |-> Undefined]

CexioTickers ==
    {Null, Ticker("", Num(7), Num(50)), Ticker("ETH-USD", Num(7), Num(50)),
     Ticker("XRP-EUR", Num(7), Num(50)), Ticker("BTC-USD", Str(7), Str(5000)),
     [Ticker("BTC-USD", Num(7), Num(50)) EXCEPT !.error = Text],
     [Ticker("BTC-USD", Undefined, Str(50)) EXCEPT !.price = Str(9), !.volume = Str(3)]}
      \cup {Ticker("BTC-USD", p, c) : p \in PriceValues, c \in PercentValues}

PriceItem(instrument, tradeable, bid, ask) ==
    [instrument |-> instrument, tradeable |-> tradeable, closeoutBid |-> bid,
     closeoutAsk |-> ask]

OandaPrices ==
    {Null, PriceItem("ETH_USD", TRUE, Str(6), Str(8)),
     PriceItem("BTC_USD", FALSE, Str(6), Str(8)),
     PriceItem("XAU_USD", TRUE, Str(6), Str(8))}
      \cup {PriceItem("BTC_USD", TRUE, b, a) :
               b \in {Str(6), Num(6), Text, Undefined}, a \in {Str(8), Text, Null}}

Arrays(S) == UNION {[1..n -> S] : n \in 1..MaxItems}

\* the entries of an object keyed by pair: the keys are distinct
CexioObjects ==
    {o \in Arrays([pair : {"BTC-USD", "ETH-USD"}, ticker : CexioTickers]) :
        /\ \A i \in 1..Len(o) : o[i].ticker = Null \/ o[i].ticker.pair = o[i].pair
        /\ \A i, j \in 1..Len(o) : i # j => o[i].pair # o[j].pair}

Payloads(connector) ==
    CASE connector = "financialmodelingprep" ->
            {[shape |-> "array", data |-> d] : d \in Arrays(FMPQuotes)}
      [] connector = "fmp-crypto" ->
            {[shape |-> "array", data |-> d] : d \in Arrays(FMPQuotes)}
      [] connector = "cexio" ->
            {[shape |-> "array", data |-> d] : d \in Arrays(CexioTickers)}
              \cup {[shape |-> "object", data |-> d] : d \in CexioObjects}
      [] connector = "oanda" ->
            {[shape |-> "array", data |-> d] : d \in Arrays(OandaPrices)}

FeedIds == {<<FeedCategory, "btcusd">>, <<FeedCategory, "ethusd">>}

NoCall == [pc |-> "none"]

FeedIdle ==
    /\ call = NoCall
    /\ output = <<>>
    /\ kept = [id \in FeedIds |-> NoAsset]
    /\ ncalls = 0

\* a step of a connector or of models.ts: the store, the sockets and the
\* supervisors are not involved
Apart ==
    /\ UNCHANGED <<storeVars, distVars, turboVars, supVars, pollVars, lifeVars, budget,
                   pushVars>>
    /\ Quiet

\* JSON.parse(JSON.stringify(asset)): what a read of the entry hands back
Stored(asset) ==
    [asset EXCEPT !.price = Json(@), !.priceLow24h = Json(@), !.priceHigh24h = Json(@),
                  !.change24h = Json(@), !.changePercent24h = Json(@),
                  !.volume24h = Json(@)]

\* the SETs of one updateAssets call, in the order of the batch
RECURSIVE Keep(_, _)
Keep(entries, list) ==
    IF list = <<>> THEN entries
    ELSE Keep([entries EXCEPT ![Head(list).id] = Stored(Head(list))], Tail(list))

\* initializeCategory: the category is given to one connector
StartConnector ==
    /\ call = NoCall
    /\ \E connector \in Connectors : call' = [pc |-> "idle", connector |-> connector]
    /\ UNCHANGED <<output, kept, ncalls>>
    /\ Apart

\* a message or a fetch reply arrives
Receive ==
    /\ call.pc = "idle"
    /\ ncalls < MaxCalls
    /\ \E p \in Payloads(call.connector) :
          call' = [pc |-> "received", connector |-> call.connector,
                   shape |-> p.shape, data |-> p.data]
    /\ ncalls' = ncalls + 1
    /\ output' = <<>>
    /\ UNCHANGED kept
    /\ Apart

\* provider.transform(data)
Transform ==
    /\ call.pc = "received"
    /\ output' = transform(call.connector, call.shape, call.data, ncalls)
    /\ call' = [pc |-> "transformed", connector |-> call.connector]
    /\ UNCHANGED <<kept, ncalls>>
    /\ Apart

\* redis.updateAssets(list), skipped for an empty list
WriteAssets ==
    /\ call.pc = "transformed"
    /\ kept' = Keep(kept, output)
    /\ output' = <<>>
    /\ call' = [pc |-> "idle", connector |-> call.connector]
    /\ UNCHANGED ncalls
    /\ Apart

(***************************************************************************)
(* models.ts called on its own: createAsset and generateAssetStats         *)
(***************************************************************************)
InputValues == {Num(7), Num(-7), Str(7), Undefined}

Extras ==
    {[NoData EXCEPT !.priceLow24h = v, !.changePercent24h = w, !.volume24h = x] :
        v \in {Undefined, Str(3)}, w \in InputValues, x \in {Undefined, Num(3)}}
      \cup {[priceLow24h |-> v, priceHigh24h |-> v, change24h |-> v,
             changePercent24h |-> v, volume24h |-> v] : v \in {Num(7), Str(7)}}

CallCreateAsset ==
    /\ call = NoCall
    /\ ncalls < MaxCalls
    /\ \E category \in Categories, symbol \in Spellings,
          price \in InputValues \ {Undefined}, extra \in Extras :
          /\ call' = [pc |-> "returned", op |-> "createAsset", category |-> category,
                      symbol |-> symbol, price |-> price, extra |-> extra]
          /\ output' = <<createAsset(category, symbol, price, extra, ncalls + 1)>>
    /\ ncalls' = ncalls + 1
    /\ UNCHANGED kept
    /\ Apart

\* the list a stats request is computed over
StatAssets ==
    {createAsset(c, "BTCUSD", Num(7), [NoData EXCEPT !.changePercent24h = p,
                                                      !.volume24h = v], 1) :
        c \in Categories, p \in {Undefined, Num(0), Num(5), Num(-5)},
        v \in {Undefined, Num(3)}}

MaxAssets == 3

CallGenerateAssetStats ==
    /\ call = NoCall
    /\ ncalls < MaxCalls
    /\ \E list \in UNION {[1..n -> StatAssets] : n \in 0..MaxAssets} :
          /\ call' = [pc |-> "returned", op |-> "generateAssetStats", list |-> list]
          /\ output' = <<generateAssetStats(list)>>
    /\ ncalls' = ncalls + 1
    /\ UNCHANGED kept
    /\ Apart

(***************************************************************************)
(* The CEX.IO push connector as the manager runs it.  connectWebSocket      *)
(* makes a new CexioWebSocketConnection whose close event calls             *)
(* handleReconnection, and sets the provider's handlers on it; the manager  *)
(* then sets its own 'disconnect' and 'data' handlers on the connection it  *)
(* was handed (on('data') replaces the data handler).  A connection made by *)
(* the provider's own reconnect timer has the provider's handlers only.     *)
(* Sockets are counted by who set their handlers last.                      *)
(***************************************************************************)
Owners == {"manager", "provider"}

\* connection attempts, successful connects, 'disconnect' messages and
\* ticker messages explored
MaxAttempts == 12
MaxPushOpens == 2
MaxDisconnects == 1
MaxMessages == 1

PushIdle ==
    /\ sockets = [connecting |-> [o \in Owners |-> 0], open |-> [o \in Owners |-> 0]]
    /\ pending = [rejects |-> 0, retry |-> 0, disc |-> 0, provider |-> 0]
    /\ tally = [attempts |-> 0, fails |-> 0, opened |-> 0, drops |-> 0, discs |-> 0]

\* a step of the push connector that hands nothing to the store
Pushing ==
    /\ UNCHANGED <<storeVars, distVars, turboVars, budget, pollVars, lifeVars, feedVars>>
    /\ UNCHANGED <<link, failures, timers, opens>>
    /\ Quiet

\* `new CexioWebSocketConnection(...)` and connection.connect() up to its await
connect(owner) ==
    /\ tally.attempts < MaxAttempts
    /\ sockets' = [sockets EXCEPT !.connecting[owner] = @ + 1]

\* CexioProvider.handleReconnection, the reconnect callback of every
\* connection: [reconnectAttempts afterwards, timers set]
cexioHandleReconnection(attempts) ==
    IF attempts >= WS_CONFIG.maxReconnectAttempts
    THEN [attempts |-> attempts, timer |-> 0]
    ELSE [attempts |-> attempts + 1, timer |-> 1]

\* initializeCategory in mode 'ws': setupWebSocketConnection calls
\* provider.connectWebSocket()
StartPush ==
    /\ tally.attempts = 0
    /\ connect("manager")
    /\ tally' = [tally EXCEPT !.attempts = 1]
    /\ UNCHANGED <<pending, retryCount, reconnectAttempts>>
    /\ Pushing

\* ws 'open': connect() resolves, connectWebSocket sets the provider's
\* handlers and returns; for a connection the manager asked for,
\* setupWebSocketConnection sets its handlers and provider.retryCount = 0
WsOpen ==
    /\ tally.opened < MaxPushOpens
    /\ \E owner \in Owners :
          /\ sockets.connecting[owner] > 0
          /\ sockets' = [sockets EXCEPT !.connecting[owner] = @ - 1, !.open[owner] = @ + 1]
          /\ retryCount' = IF owner = "manager" THEN 0 ELSE retryCount
    /\ tally' = [tally EXCEPT !.opened = @ + 1, !.fails = 0]
    /\ UNCHANGED <<pending, reconnectAttempts>>
    /\ Pushing

\* the server's {e: 'connected'} greeting on an open connection
WsGreeting ==
    /\ sockets.open["manager"] + sockets.open["provider"] > 0
    /\ reconnectAttempts["cexio"] # 0
    /\ reconnectAttempts' = [reconnectAttempts EXCEPT !["cexio"] = 0]
    /\ UNCHANGED <<sockets, pending, tally, retryCount>>
    /\ Pushing

\* a connect fails: ws 'error' rejects connect() and ws 'close' runs
\* handleReconnection; the caller's catch runs afterwards (the provider's
\* timer callback only logs the rejection)
WsFail ==
    /\ \E owner \in Owners :
          LET h == cexioHandleReconnection(reconnectAttempts["cexio"])
          IN /\ sockets.connecting[owner] > 0
             /\ sockets' = [sockets EXCEPT !.connecting[owner] = @ - 1]
             /\ reconnectAttempts' = [reconnectAttempts EXCEPT !["cexio"] = h.attempts]
             /\ pending' = [pending EXCEPT
                               !.provider = @ + h.timer,
                               !.rejects = IF owner = "manager" THEN @ + 1 ELSE @]
    /\ tally' = [tally EXCEPT !.fails = @ + 1]
    /\ UNCHANGED retryCount
    /\ Pushing

\* the remote end closes or errors an open connection: ws 'close' runs
\* handleReconnection (the reject of the 'error' handler has no effect on a
\* settled promise)
WsDrop ==
    /\ \E owner \in Owners :
          LET h == cexioHandleReconnection(reconnectAttempts["cexio"])
          IN /\ sockets.open[owner] > 0
             /\ sockets' = [sockets EXCEPT !.open[owner] = @ - 1]
             /\ reconnectAttempts' = [reconnectAttempts EXCEPT !["cexio"] = h.attempts]
             /\ pending' = [pending EXCEPT !.provider = @ + h.timer]
    /\ tally' = [tally EXCEPT !.drops = @ + 1]
    /\ UNCHANGED retryCount
    /\ Pushing

\* setupWebSocketConnection, catch branch, for the CEX.IO connector
PushCatch ==
    /\ pending.rejects > 0
    /\ IF retryCount < maxRetries
       THEN /\ retryCount' = retryCount + 1
            /\ pending' = [pending EXCEPT !.rejects = @ - 1, !.retry = @ + 1]
       ELSE /\ pending' = [pending EXCEPT !.rejects = @ - 1]
            /\ UNCHANGED retryCount
    /\ UNCHANGED <<sockets, tally, reconnectAttempts>>
    /\ Pushing

\* a message {e: 'disconnect'} on a connection with the manager's handlers:
\* connection.on('disconnect') sets a timer; the connection stays open
WsDisconnectEvent ==
    /\ tally.discs < MaxDisconnects
    /\ sockets.open["manager"] > 0
    /\ pending' = [pending EXCEPT !.disc = @ + 1]
    /\ tally' = [tally EXCEPT !.discs = @ + 1]
    /\ UNCHANGED <<sockets, retryCount, reconnectAttempts>>
    /\ Pushing

\* a reconnect timer fires: the catch branch's and the disconnect handler's
\* call setupWebSocketConnection (the latter after provider.retryCount++),
\* handleReconnection's calls connectWebSocket
PushTimer ==
    /\ \E kind \in {"retry", "disc", "provider"} :
          /\ pending[kind] > 0
          /\ pending' = [pending EXCEPT ![kind] = @ - 1]
          /\ connect(IF kind = "provider" THEN "provider" ELSE "manager")
          /\ retryCount' = IF kind = "disc" THEN retryCount + 1 ELSE retryCount
    /\ tally' = [tally EXCEPT !.attempts = @ + 1]
    /\ UNCHANGED reconnectAttempts
    /\ Pushing

\* the message {e: 'get_ticker', ok: 'ok', oid, data} as Object.entries gives
\* it to transform: the string-valued entries fail `typeof ticker ===
\* 'object'`, the entry of key 'data' is an object without ticker fields
Envelope(data) == <<[pair |-> "data", ticker |-> Ticker("data", Undefined, Undefined)]>>

\* the callbacks registered with provider.addEventListener('data', ...):
\* nothing in the repository registers one
DataListeners == {}

\* the ticker data the upstream sends
PushPayloads ==
    {<<[pair |-> "BTC-USD", ticker |-> Ticker("BTC-USD", Num(7), Num(50))]>>,
     <<[pair |-> "BTC-USD", ticker |-> Ticker("BTC-USD", Num(7), Num(50))],
       [pair |-> "ETH-USD", ticker |-> Ticker("ETH-USD", Num(7), Num(50))]>>}

\* what the data handler of a connection hands to redis.updateAssets for a
\* ticker message.  The manager's handler passes the message to
\* provider.transform; the provider's is processTickerData, which transforms
\* message.data and calls the provider's 'data' listeners with the result.
DataHandler(owner, data, now) ==
    IF owner = "manager"
    THEN cexioTransform("object", Envelope(data), FeedCategory, now)
    ELSE IF DataListeners = {} THEN <<>>
    ELSE cexioTransform("object", data, FeedCategory, now)

\* a get_ticker message arrives on an open connection
WsMessage ==
    /\ ncalls < MaxMessages
    /\ \E owner \in Owners, data \in PushPayloads :
          /\ sockets.open[owner] > 0
          /\ call' = [pc |-> "pushed", owner |-> owner, data |-> data]
          /\ output' = DataHandler(owner, data, ncalls + 1)
          /\ kept' = Keep(kept, DataHandler(owner, data, ncalls + 1))
    /\ ncalls' = ncalls + 1
    /\ UNCHANGED <<storeVars, distVars, turboVars, budget, pollVars, lifeVars, supVars,
                   pushVars>>
    /\ Quiet

\* BaseProvider.shutdown, first half: clearInterval(this.pollingInterval).
\* setupApiPolling stores each category's timer in the provider's single
\* pollingInterval field, so the field holds the timer of the last category
\* whose interval was set
clearPollingInterval(pol) ==
    LET set == {i \in 1..Len(PollOrder) : pol[PollOrder[i]] = "interval"}
    IN IF set = {} THEN pol
       ELSE [pol EXCEPT ![PollOrder[CHOOSE i \in set : \A j \in set : j <= i]] = "cleared"]

\* BaseProvider.shutdown, second half: CexioProvider.disconnectWebSocket
\* closes the connection the provider holds; the socket's 'close' handler
\* calls the reconnect callback as for any other close
disconnectWebSocket ==
    IF \A owner \in Owners : sockets.open[owner] = 0
    THEN UNCHANGED <<sockets, pending, tally, reconnectAttempts>>
    ELSE /\ \E owner \in Owners :
               LET h == cexioHandleReconnection(reconnectAttempts["cexio"])
               IN /\ sockets.open[owner] > 0
                  /\ sockets' = [sockets EXCEPT !.open[owner] = @ - 1]
                  /\ reconnectAttempts' = [reconnectAttempts EXCEPT !["cexio"] = h.attempts]
                  /\ pending' = [pending EXCEPT !.provider = @ + h.timer]
         /\ UNCHANGED tally

\* providerManager.shutdown returned: every provider is shut down
\* (clearInterval of its pollingInterval, disconnectWebSocket of its
\* connection) and the turbo registry cleared; `await
\* redisService.shutdown()` is reached
ProvidersShutDown ==
    /\ phase = "providers"
    /\ phase' = "redis"
    /\ directStreamSubscribers' = [s \in Symbols |-> {}]
    /\ UNCHANGED turboCleanup
    /\ polling' = clearPollingInterval(polling)
    /\ UNCHANGED <<breaker, requests, nfetch, failedOf, returned>>
    /\ disconnectWebSocket
    /\ UNCHANGED <<retryCount, link, failures, timers, opens>>
    /\ UNCHANGED <<storeVars, distVars, budget, feedVars>>
    /\ Quiet

(***************************************************************************)
(* Initial state: an empty store, no socket connected, nothing in flight.  *)
(***************************************************************************)
InitState ==
    /\ assets = [i \in Ids |-> NoAsset]
    /\ catIndex = [c \in Categories |-> {}]
    /\ symbols = [s \in Symbols |-> NoId]
    /\ channel = <<>>
    /\ storeUp = TRUE
    /\ wseq = 0
    /\ lastWrite = [i \in Ids |-> 0]
    /\ updating = <<>>
    /\ clearing = {}
    /\ nclears = 0
    /\ clientState = [c \in Clients |-> "new"]
    /\ subs = [c \in Clients |-> [all |-> FALSE, categories |-> {}, symbols |-> {},
                                  turboMode |-> FALSE]]
    /\ rooms = [c \in Clients |-> {}]
    /\ subscriptions = [all |-> 0, categories |-> [c \in Categories |-> 0],
                        symbols |-> [s \in Symbols |-> 0]]
    /\ subscribing = {}
    /\ handling = <<>>
    /\ nsubs = 0
    /\ directStreamSubscribers = [s \in Symbols |-> {}]
    /\ turboCleanup = [c \in Clients |-> {}]
    /\ retryCount = 0
    /\ reconnectAttempts = [p \in {"cexio", "base"} |-> 0]
    /\ failures = [p \in Paths |-> 0]
    /\ timers = {}
    /\ opens = 0
    /\ breaker = [state |-> "closed", trial |-> "none", fires |-> 0, failures |-> 0]
    /\ polling = [c \in Categories |-> "none"]
    /\ requests = {}
    /\ nfetch = 0
    /\ failedOf = [c \in Categories |-> FALSE]
    /\ returned = {}
    /\ phase = "serving"
    /\ emitted = {}
    /\ returnedIds = {}
    /\ FeedIdle
    /\ PushIdle

\* the store on its own: no socket connects, no connector is supervised
Init ==
    /\ InitState
    /\ budget = MaxWrites
    /\ link = [p \in Paths |-> "idle"]

\* the store with sockets attached
InitLive ==
    /\ InitState
    /\ budget = MaxLiveWrites
    /\ link = [p \in Paths |-> "idle"]

\* one push connector is started (initializeCategory, connection mode 'ws')
InitBackoff ==
    /\ InitState
    /\ budget = 0
    /\ \E p \in Paths : link = [q \in Paths |-> IF q = p THEN "connecting" ELSE "idle"]

\* the state after socket c1 connected and its `subscribe:symbols` request
\* for every symbol in turbo mode was answered (Connect, SubscribeSymbols,
\* SnapshotSymbols from InitLive); the store is still empty
InitStream ==
    /\ assets = [i \in Ids |-> NoAsset]
    /\ catIndex = [c \in Categories |-> {}]
    /\ symbols = [s \in Symbols |-> NoId]
    /\ channel = <<>>
    /\ storeUp = TRUE
    /\ wseq = 0
    /\ lastWrite = [i \in Ids |-> 0]
    /\ updating = <<>>
    /\ clearing = {}
    /\ nclears = 0
    /\ clientState = [c \in Clients |-> IF c = "c1" THEN "connected" ELSE "new"]
    /\ subs = [c \in Clients |->
                 IF c = "c1"
                 THEN [all |-> FALSE, categories |-> {}, symbols |-> Symbols, turboMode |-> TRUE]
                 ELSE [all |-> FALSE, categories |-> {}, symbols |-> {}, turboMode |-> FALSE]]
    /\ rooms = [c \in Clients |-> IF c = "c1" THEN {<<"symbols", Symbols>>} ELSE {}]
    /\ subscriptions = [all |-> 0, categories |-> [c \in Categories |-> 0],
                        symbols |-> [s \in Symbols |-> 1]]
    /\ subscribing = {}
    /\ handling = <<>>
    /\ nsubs = 1
    /\ directStreamSubscribers = [s \in Symbols |-> {"c1"}]
    /\ turboCleanup = [c \in Clients |-> IF c = "c1" THEN {Symbols} ELSE {}]
    /\ retryCount = 0
    /\ reconnectAttempts = [p \in {"cexio", "base"} |-> 0]
    /\ failures = [p \in Paths |-> 0]
    /\ timers = {}
    /\ opens = 0
    /\ breaker = [state |-> "closed", trial |-> "none", fires |-> 0, failures |-> 0]
    /\ polling = [c \in Categories |-> "none"]
    /\ requests = {}
    /\ nfetch = 0
    /\ failedOf = [c \in Categories |-> FALSE]
    /\ returned = {}
    /\ phase = "serving"
    /\ emitted = {}
    /\ returnedIds = {}
    /\ FeedIdle
    /\ PushIdle
    /\ budget = MaxWrites
    /\ link = [p \in Paths |-> "idle"]

(***************************************************************************)
(* Specifications                                                          *)
(***************************************************************************)
\* the store under concurrent writers, expiry and administrative clears
NextStore ==
    \/ PushData \/ Publish \/ Expire
    \/ ClearAll \/ clearAllDel
    \/ ClearCategory \/ clearCategoryExec
    \/ ClearAsset \/ clearAssetExec
    \/ ClearSymbol \/ clearSymbolGet
    \/ clearPublish
    \/ OnMessage \/ EmitUpdate

SpecStore == Init /\ [][NextStore]_vars

\* the standard path: writes, notifications, sockets and their subscriptions
NextNotify ==
    \/ PushData \/ Publish \/ Expire
    \/ OnMessage \/ EmitUpdate
    \/ Connect \/ Disconnect
    \/ SubscribeAll \/ SubscribeCategory \/ SubscribeSymbols
    \/ SnapshotAll \/ SnapshotCategory \/ SnapshotSymbols

SpecNotify == InitLive /\ [][NextNotify]_vars

\* the turbo path: push and poll ingestion, store outages, turbo registration
NextTurbo ==
    \/ PushData \/ FetchAndUpdateFromApi \/ Publish
    \/ StoreDown \/ StoreBack
    \/ OnMessage \/ EmitUpdate
    \/ Connect \/ Disconnect
    \/ SubscribeSymbols \/ SnapshotSymbols

SpecTurbo == InitLive /\ [][NextTurbo]_vars

\* the reconnection of a push connector
NextBackoff ==
    \/ setupWebSocketConnection \/ setupWebSocketConnectionCatch
    \/ OnDisconnect \/ RetryTimer
    \/ CexioOpen \/ CexioConnected \/ handleReconnection
    \/ BaseOpen \/ attemptReconnect \/ ReconnectTimer

SpecBackoff == InitBackoff /\ [][NextBackoff]_vars

\* the poll categories of one provider behind its circuit breaker
NextPoll ==
    \/ PollFirst \/ PollTick \/ RefreshCategory \/ Respond
    \/ Cooldown \/ WindowRoll \/ Publish

SpecPoll == InitLive /\ [][NextPoll]_vars

\* every producer of store writes: overlapping poll ticks, manual refreshes
\* and push messages
NextOrder ==
    \/ PollFirst \/ PollTick \/ RefreshCategory \/ Respond
    \/ PushData \/ Publish

SpecOrder == Init /\ [][NextOrder]_vars

\* consecutive pushed batches and a turbo client, with a store that may fail
NextStream ==
    \/ PushData \/ Publish
    \/ StoreDown \/ StoreBack
    \/ Disconnect

SpecStream == InitStream /\ [][NextStream]_vars

\* clients subscribing while the process shuts down
NextShutdown ==
    \/ gracefulShutdown \/ ProvidersShutDown \/ RedisShutDown
    \/ Connect \/ SubscribeAll \/ SubscribeCategory
    \/ SnapshotAll \/ SnapshotCategory \/ SnapshotFails

SpecShutdown == InitLive /\ [][NextShutdown]_vars

\* updateAssets under every kind of argument, with a store that may fail
NextWrite ==
    \/ CallUpdateAssets \/ CallUpdateAssetsEmpty \/ Publish
    \/ StoreDown \/ StoreBack

SpecWrite == Init /\ [][NextWrite]_vars

\* the poll categories of one provider, with a store that may fail
NextPollStore ==
    \/ PollFirst \/ PollTick \/ Respond
    \/ Cooldown \/ WindowRoll \/ Publish
    \/ StoreDown \/ StoreBack

SpecPollStore == Init /\ [][NextPollStore]_vars

\* the CEX.IO push connector under the manager
NextPush ==
    \/ StartPush \/ WsOpen \/ WsGreeting \/ WsFail \/ WsDrop
    \/ PushCatch \/ WsDisconnectEvent \/ PushTimer \/ WsMessage

SpecPush == Init /\ [][NextPush]_vars

\* config.connectionModes gives a provider one mode: initializeCategory
\* sets up polling for 'api' and a push connection for 'ws'
ApiMode == tally.attempts = 0

WsMode == nfetch = 0

\* startServer registers the signal handlers after `await
\* providerManager.initialize()`: every category has had its first fetch and
\* its interval set, or the first connection attempt has resolved or has
\* been through the catch branch
Initialized ==
    \/ \A c \in Categories : polling[c] = "interval"
    \/ tally.opened > 0
    \/ tally.fails > 0 /\ pending.rejects = 0

\* the supervisor of one provider, polling or push, in a process that is
\* shut down
NextQuiesce ==
    \/ (ApiMode /\ PollFirst) \/ (ApiMode /\ PollTick) \/ (ApiMode /\ Respond)
    \/ (WsMode /\ StartPush) \/ WsOpen \/ WsFail \/ WsDrop \/ PushCatch \/ PushTimer
    \/ (Initialized /\ gracefulShutdown) \/ ProvidersShutDown \/ RedisShutDown

SpecQuiesce == InitLive /\ [][NextQuiesce]_vars

\* writes racing with clearCategory and clearAsset calls
NextIndex ==
    \/ PushData \/ Publish
    \/ ClearCategory \/ clearCategoryExec
    \/ ClearAsset \/ clearAssetExec
    \/ clearPublish

SpecIndex == Init /\ [][NextIndex]_vars

\* one category polled through a connector without a breaker
NextSlow == PollFirstDirect \/ PollTickDirect \/ RespondDirect \/ Publish

SpecSlow == Init /\ [][NextSlow]_vars

\* sockets that connect, subscribe to all or to a category, and disconnect
NextCounters ==
    \/ Connect \/ Disconnect
    \/ SubscribeAll \/ SubscribeCategory
    \/ SnapshotAll \/ SnapshotCategory

SpecCounters == InitLive /\ [][NextCounters]_vars

\* subscribe handlers interleaved with store writes and the handling of
\* their notifications
NextGap ==
    \/ Connect \/ SubscribeAll \/ SubscribeCategory
    \/ SnapshotAll \/ SnapshotCategory
    \/ PushData \/ Publish
    \/ OnMessage \/ EmitUpdate

SpecGap == InitLive /\ [][NextGap]_vars

\* an awaited store call settles and a callback that is due runs: the
\* publish that follows pipeline.exec(), the subscriber callback for a
\* message on the channel, its emits after the mget, and the emit of a
\* snapshot after its store read
SpecGapLive ==
    /\ SpecGap
    /\ WF_vars(Publish) /\ WF_vars(OnMessage) /\ WF_vars(EmitUpdate)
    /\ WF_vars(SnapshotAll) /\ WF_vars(SnapshotCategory)

\* the state after socket c1 subscribed to 'all' and socket c2 to category
\* 'crypto' and both requests were answered (Connect, SubscribeAll,
\* SnapshotAll, Connect, SubscribeCategory, SnapshotCategory from InitLive);
\* the store is still empty and the last emit was c2's empty snapshot
InitEvict ==
    /\ assets = [i \in Ids |-> NoAsset]
    /\ catIndex = [c \in Categories |-> {}]
    /\ symbols = [s \in Symbols |-> NoId]
    /\ channel = <<>>
    /\ storeUp = TRUE
    /\ wseq = 0
    /\ lastWrite = [i \in Ids |-> 0]
    /\ updating = <<>>
    /\ clearing = {}
    /\ nclears = 0
    /\ clientState = [c \in Clients |-> "connected"]
    /\ subs = [c \in Clients |->
                 IF c = "c1"
                 THEN [all |-> TRUE, categories |-> {}, symbols |-> {}, turboMode |-> FALSE]
                 ELSE [all |-> FALSE, categories |-> {"crypto"}, symbols |-> {},
                       turboMode |-> FALSE]]
    /\ rooms = [c \in Clients |-> IF c = "c1" THEN {<<"all-assets">>}
                                   ELSE {<<"category", "crypto">>}]
    /\ subscriptions = [all |-> 1,
                        categories |-> [c \in Categories |-> IF c = "crypto" THEN 1 ELSE 0],
                        symbols |-> [s \in Symbols |-> 0]]
    /\ subscribing = {}
    /\ handling = <<>>
    /\ nsubs = 2
    /\ directStreamSubscribers = [s \in Symbols |-> {}]
    /\ turboCleanup = [c \in Clients |-> {}]
    /\ retryCount = 0
    /\ reconnectAttempts = [p \in {"cexio", "base"} |-> 0]
    /\ failures = [p \in Paths |-> 0]
    /\ timers = {}
    /\ opens = 0
    /\ breaker = [state |-> "closed", trial |-> "none", fires |-> 0, failures |-> 0]
    /\ polling = [c \in Categories |-> "none"]
    /\ requests = {}
    /\ nfetch = 0
    /\ failedOf = [c \in Categories |-> FALSE]
    /\ returned = {}
    /\ phase = "serving"
    /\ emitted = {[to |-> "c2", event |-> <<"data:category", "crypto">>, assets |-> <<>>]}
    /\ returnedIds = {}
    /\ FeedIdle
    /\ PushIdle
    /\ budget = MaxLiveWrites
    /\ link = [p \in Paths |-> "idle"]

\* administrative clears with subscribed sockets attached
NextEvict ==
    \/ PushData \/ Publish
    \/ ClearAll \/ clearAllDel
    \/ ClearCategory \/ clearCategoryExec
    \/ ClearAsset \/ clearAssetExec
    \/ ClearSymbol \/ clearSymbolGet
    \/ clearPublish
    \/ OnMessage \/ EmitUpdate

SpecEvict == InitEvict /\ [][NextEvict]_vars

\* one connector feeding the store
NextFeed == StartConnector \/ Receive \/ Transform \/ WriteAssets

SpecFeed == Init /\ [][NextFeed]_vars

\* models.ts as functions of their arguments
NextModels == CallCreateAsset \/ CallGenerateAssetStats

SpecModels == Init /\ [][NextModels]_vars

(***************************************************************************)
(* Properties                                                              *)
(***************************************************************************)
\* C1: every id listed in a category index has an entry in primary storage.
C1_IndexedIdsHaveRecord ==
    \A c \in Categories : \A id \in catIndex[c] : assets[id] # NoAsset

\* the update messages waiting on the channel
PendingUpdates == {channel[i] : i \in {n \in 1..Len(channel) : channel[n].type = "update"}}

\* the notifications whose re-read has run
Handled == {handling[i] : i \in 1..Len(handling)}

IsPublish == updating # <<>> /\ updating' = Tail(updating)

\* the connected sockets registered for turbo delivery of symbol s since
\* before the batch of call k was produced
TurboClients(k, s) == {c \in k.turbo[s] \cap directStreamSubscribers[s] : Connected(c)}

TurboUpdate(c, a) == [to |-> c, event |-> <<"turbo:update">>, assets |-> <<a>>]

\* C3: while the write of a pushed batch is still awaited, the turbo:update
\* of each of its records can be emitted without the write finishing.
C3_TurboDoesNotWaitForWrite ==
    \A i \in 1..Len(updating) :
        updating[i].origin = "push" =>
            \A j \in 1..Len(updating[i].batch) :
              \A c \in TurboClients(updating[i], updating[i].batch[j].symbol) :
                ENABLED (/\ NextTurbo
                         /\ updating' = updating
                         /\ TurboUpdate(c, updating[i].batch[j]) \in emitted')

\* C4: a pushed batch whose write the store rejected is still delivered as
\* turbo:update to every connected socket registered for its symbols.
C4_TurboSurvivesStoreFailure ==
    [][(IsPublish /\ Head(updating).origin = "push" /\ ~Head(updating).ok) =>
          \A j \in 1..Len(Head(updating).batch) :
              \A c \in TurboClients(Head(updating), Head(updating).batch[j].symbol) :
                  TurboUpdate(c, Head(updating).batch[j]) \in emitted']_vars

\* C5: a batch written successfully, pushed or polled, is delivered as
\* turbo:update to every connected socket registered for its symbols.
C5_EveryOriginReachesTurbo ==
    [][(IsPublish /\ Head(updating).ok /\ storeUp) =>
          \A j \in 1..Len(Head(updating).batch) :
              \A c \in TurboClients(Head(updating), Head(updating).batch[j].symbol) :
                  TurboUpdate(c, Head(updating).batch[j]) \in emitted']_vars

\* the step in which the update callback emits
IsEmitUpdate == handling # <<>> /\ handling' = Tail(handling)

\* the records of category c among rs, in order
OfCategory(rs, c) == SelectSeq(rs, LAMBDA a : CategoryOf(a.id) = c)

CategoryUpdate(c, cat, rs) ==
    [to |-> c, event |-> <<"data:category:update", cat>>, assets |-> rs]

\* what socket c is sent under event ev in the step
Sent(c, ev) == {e \in emitted' : e.to = c /\ e.event = ev}

\* C6 (as the code has it): when a notification is processed, a connected
\* socket subscribed to category cat is sent one category update holding
\* exactly the records of cat that the re-read resolved, and none when no
\* record of cat was resolved; a socket is sent no update of a category it
\* has not subscribed to.
C6_CategoryFanOut ==
    [][IsEmitUpdate =>
          \A c \in Clients : \A cat \in Categories :
              LET mine == OfCategory(Head(handling).updatedAssets, cat)
              IN Sent(c, <<"data:category:update", cat>>) =
                    IF Connected(c) /\ cat \in subs[c].categories /\ mine # <<>>
                    THEN {CategoryUpdate(c, cat, mine)}
                    ELSE {}]_vars

\* C6, witness: a batch with records of two categories was notified, and a
\* socket subscribed to one category only was sent its category's part.
C6_CategorySubscriberServed ==
    \E e \in emitted : \E cat \in Categories :
        /\ e.event = <<"data:category:update", cat>>
        /\ subs[e.to].categories = {cat}
        /\ e.assets # <<>>
        /\ \A i \in 1..Len(e.assets) : CategoryOf(e.assets[i].id) = cat
        /\ \E e2 \in emitted : e2.event = <<"data:update">> /\ Len(e2.assets) > Len(e.assets)

\* C6 (as stated): a connected socket subscribed to category cat is sent a
\* category update for a notification if and only if an id of the notified
\* batch belongs to cat.
C6_DeliveredIffBatchHasCategory ==
    [][IsEmitUpdate =>
          \A c \in Clients : \A cat \in Categories :
              (Connected(c) /\ cat \in subs[c].categories) =>
                  (Sent(c, <<"data:category:update", cat>>) # {}
                     <=> \E id \in SeqToSet(Head(handling).msg.assets) : CategoryOf(id) = cat)]_vars

\* C7 (as the code has it): when a notification is processed and its
\* re-read resolved at least one record, every connected socket subscribed
\* to 'all' is sent one data:update holding every resolved record, of every
\* category; each is a record of the notified batch's ids, at least as new.
C7_AllSubscribersGetResolvedBatch ==
    [][IsEmitUpdate =>
          LET h == Head(handling)
          IN /\ \A c \in Clients :
                   Sent(c, <<"data:update">>) =
                      IF Connected(c) /\ subs[c].all /\ h.updatedAssets # <<>>
                      THEN {[to |-> c, event |-> <<"data:update">>, assets |-> h.updatedAssets]}
                      ELSE {}
             /\ \A a \in SeqToSet(h.updatedAssets) :
                   a.id \in SeqToSet(h.msg.assets) /\ a.w >= h.msg.w]_vars

\* C7, witness: an 'all' subscriber was sent a data:update with records of
\* two categories.
C7_AllSubscriberGotMixedBatch ==
    \E e \in emitted :
        /\ e.event = <<"data:update">>
        /\ subs[e.to].all
        /\ \E i, j \in 1..Len(e.assets) : CategoryOf(e.assets[i].id) # CategoryOf(e.assets[j].id)

\* C7 (as stated): every connected socket subscribed to 'all' is sent one
\* data:update holding a record for every id of the notified batch.
C7_AllSubscribersGetFullBatch ==
    [][IsEmitUpdate =>
          \A c \in Clients : (Connected(c) /\ subs[c].all) =>
              \E e \in Sent(c, <<"data:update">>) :
                  IdsOf(e.assets) = Head(handling).msg.assets]_vars

\* a socket whose only subscription is subscribe:symbols without turbo mode
SymbolOnly(c) ==
    /\ subs[c].symbols # {}
    /\ ~subs[c].all /\ subs[c].categories = {} /\ ~subs[c].turboMode
    /\ \A k \in subscribing : k.client = c => (k.kind = "symbols" /\ k.mode = "standard")

\* the events that carry incremental updates
UpdateEvents ==
    {<<"data:update">>, <<"turbo:update">>} \cup {<<"data:category:update", c>> : c \in Categories}

C9_NoDisconnectedTurboClient ==
    \A c \in Clients : clientState[c] = "disconnected" =>
        \A s \in Symbols : c \notin directStreamSubscribers[s]

\* the base delay of each reconnect path
BaseDelay(p) ==
    IF p = "manager" THEN retryDelay
    ELSE IF p = "cexio" THEN WS_CONFIG.reconnectDelay ELSE reconnectInterval

\* the caps that could explain the delays seen on path p: one of the delays,
\* or a cap too large to take effect
Caps(p) == {t.delay : t \in {x \in timers : x.path = p}} \cup {ExpDelay(BaseDelay(p), MaxExp)}

\* C10: for some cap, every reconnect scheduled after n consecutive failures
\* waits min(base * 1.5^n, cap).
C10_DelayIsCappedExponential ==
    \A p \in Paths : \E cap \in Caps(p) :
        \A t \in timers : t.path = p => t.delay = Min(ExpDelay(BaseDelay(p), t.n), cap)

\* the attempt counter of each reconnect path
Counter(p) == IF p = "manager" THEN retryCount ELSE reconnectAttempts[p]

\* C11: a step that establishes a push connection leaves the attempt counter
\* of that connector at 0.
C11_CounterZeroAfterConnect ==
    [][\A p \in Paths :
          (link[p] # "connected" /\ link'[p] = "connected") => Counter(p)' = 0]_vars

\* the step starts a fetchAndUpdateFromApi call
IsFetchStart == nfetch' # nfetch

\* the call started by the step was refused by the breaker
FailsFast == \E x \in returned' : x.n = nfetch' /\ x.result = "rejected"

\* C12: while the breaker is Open no step hands a request to the upstream,
\* and a fetch call started then fails at once.
C12_OpenBreakerFailsFast ==
    [][breaker.state = "open" =>
          /\ requests' \subseteq requests
          /\ (IsFetchStart => FailsFast)]_vars

\* a poll tick was refused while the breaker is Open
C12_TickRefusedWhileOpen ==
    /\ breaker.state = "open"
    /\ \E x \in returned : x.n = nfetch /\ x.kind = "tick" /\ x.result = "rejected"

\* the trial requests in flight
Trials == {r \in requests : r.trial}

\* the step settles the trial request and the caller gets x
TrialSettles(x) == x \in returned' /\ x.trial /\ \E r \in Trials : r.n = x.n /\ r \notin requests'

\* C13: the breaker leaves Open only for HalfOpen; in HalfOpen at most one
\* trial request is with the upstream and, while it is, other calls fail
\* fast; a trial that succeeds closes the breaker, one that fails opens it.
C13_HalfOpenAllowsOneTrial ==
    [][/\ (breaker.state = "open" /\ breaker'.state # "open") => breaker'.state = "halfOpen"
       /\ Cardinality(Trials') <= 1
       /\ (breaker.state = "halfOpen" /\ breaker.trial = "running") =>
             /\ requests' \subseteq requests
             /\ (IsFetchStart => FailsFast)
       /\ \A x \in returned' : TrialSettles(x) =>
             breaker'.state = IF x.result \in {"assets", "empty"} THEN "closed" ELSE "open"]_vars

\* a call was refused while the trial request was with the upstream
C13_CallRefusedDuringTrial ==
    /\ breaker.state = "halfOpen"
    /\ breaker.trial = "running"
    /\ \E r \in Trials : \E x \in returned : x.n > r.n /\ x.result = "rejected"

\* C14: a fetch call of a category fails fast only if an upstream request of
\* that same category has failed.
C14_CategoriesPollIndependently ==
    [][\A x \in returned' : x.result = "rejected" => failedOf'[x.category]]_vars

\* the step is an updateAssets call whose pipeline the store accepted
IsWrite == Len(updating') = Len(updating) + 1 /\ updating'[Len(updating')].ok

\* C15: every write puts the values just observed into the store, and each
\* replaces only a value that was observed earlier.
C15_AppliedInObservedOrder ==
    [][IsWrite =>
          LET b == updating'[Len(updating')].batch
          IN \A i \in 1..Len(b) :
                /\ assets'[b[i].id] # NoAsset
                /\ assets'[b[i].id].ver = b[i].ver
                /\ assets[b[i].id] # NoAsset => assets[b[i].id].ver < b[i].ver]_vars

\* two overlapping polls were answered in the reverse of the order they
\* were sent in, and both wrote the same id
C15_OverlappingPollsWroteSameId ==
    /\ Len(updating) = 2
    /\ updating[1].origin = "poll"
    /\ updating[2].origin = "poll"
    /\ \E x \in returned : x.n = 1 /\ x.result = "assets"
    /\ \E i \in 1..Len(updating[1].batch), j \in 1..Len(updating[2].batch) :
          /\ updating[1].batch[i].id = updating[2].batch[j].id
          /\ assets[updating[2].batch[j].id].ver = updating[2].batch[j].ver

\* the records of symbol s whose updateAssets call has not returned yet
Waiting(s) ==
    UNION {{k.batch[i] : i \in {n \in 1..Len(k.batch) : k.batch[n].symbol = s}} :
             k \in SeqToSet(updating)}

C17_NoSubscriptionAfterStop ==
    [][nsubs' # nsubs => phase \in {"serving", "providers"}]_vars

\* how often x occurs in the sequence q
Count(q, x) == Cardinality({i \in 1..Len(q) : q[i] = x})

\* C18: an updateAssets call on a non-empty list that returns gives back
\* exactly the ids of the records that carry one, and has published one
\* 'update' notification with that id list; a call on an empty list returns
\* the empty list and publishes nothing.
C18_ReturnsPublishedIds ==
    [][\A ids \in returnedIds' :
          IF IsPublish
          THEN /\ \A x \in Ids : Count(ids, x) = Count(IdsOf(Head(updating).batch), x)
               /\ Count(ids, NoId) = 0
               /\ Len(channel') = Len(channel) + 1
               /\ channel'[Len(channel')].type = "update"
               /\ channel'[Len(channel')].assets = ids
          ELSE ids = <<>> /\ channel' = channel]_vars

\* a call whose records all lacked an id returned the empty list, and its
\* notification carries the empty list
C18_IdlessBatchPublishedEmpty ==
    /\ returnedIds = {<<>>}
    /\ updating = <<>>
    /\ wseq = 1
    /\ Len(channel) = 1 /\ channel[1].assets = <<>>

\* C18 as stated: every call that returns has published exactly one 'update'
\* notification whose id list is the returned list.
C18_EveryCallPublishesOnce ==
    [][\A ids \in returnedIds' :
          /\ Len(channel') = Len(channel) + 1
          /\ channel'[Len(channel')].type = "update"
          /\ channel'[Len(channel')].assets = ids]_vars

\* the primary entries of a store, without the time they were set at
Entries(st) ==
    [i \in Ids |-> IF st.assets[i] = NoAsset THEN NoAsset
                   ELSE [id |-> st.assets[i].id, category |-> st.assets[i].category,
                         symbol |-> st.assets[i].symbol, ver |-> st.assets[i].ver]]

\* the store after record a is written once, and after it is written again
Once(a) == PipelineExec(Store, <<a>>, wseq + 1)
Twice(a) == PipelineExec(Once(a), <<a>>, wseq + 2)

\* C19: from any store, writing a record a second time changes nothing but
\* the time its entry was set: the entries, the category index and the symbol
\* lookup are as after the first write, with the id in the index of its
\* category and as the one entry of its symbol.
C19_SecondWriteChangesNothing ==
    \A id \in Ids, ver \in 0..MaxWrites :
        LET a == Asset(id, ver)
        IN /\ Entries(Twice(a)) = Entries(Once(a))
           /\ Twice(a).catIndex = Once(a).catIndex
           /\ Twice(a).symbols = Once(a).symbols
           /\ a.id \in Twice(a).catIndex[a.category]
           /\ Twice(a).symbols[a.symbol] = a.id

\* one call wrote the same record twice
C19_SameRecordWrittenTwice ==
    \E i \in 1..Len(updating) :
        LET b == updating[i].batch
        IN /\ updating[i].ok
           /\ Len(b) = 2 /\ b[1] = b[2] /\ b[1].id # NoId
           /\ assets[b[1].id] # NoAsset /\ assets[b[1].id].ver = b[1].ver
           /\ b[1].id \in catIndex[b[1].category]
           /\ symbols[b[1].symbol] = b[1].id

\* what a read hands back for a stored entry: the record that was serialised,
\* without the time the entry was set at
Parsed(e) ==
    IF e = NoAsset THEN NoAsset
    ELSE [id |-> e.id, category |-> e.category, symbol |-> e.symbol, ver |-> e.ver]

Contains(q, r) == \E i \in 1..Len(q) : Parsed(q[i]) = r

\* the call completing in this step wrote the single record r, and the entry
\* of r.id is still the one that call set (no later write of that id, no
\* expiry, no clear)
WriteOfCompletes(r) ==
    /\ IsPublish
    /\ returnedIds' # {}
    /\ Head(updating).batch = <<r>>
    /\ r.id # NoId
    /\ assets[r.id] # NoAsset
    /\ assets[r.id].w = Head(updating).w

\* C20: when write([r]) completes, and for as long as the entry it set is
\* neither expired, cleared nor rewritten, get(r.id) returns a record equal
\* to r in every field, and getMany([r.id]), getByCategory(r.category) and
\* getBySymbols([r.symbol]) each contain it.
C20_WrittenRecordIsRead ==
    [][\A id \in Ids, ver \in 0..MaxWrites :
          LET r == Asset(id, ver)
          IN WriteOfCompletes(r) =>
                /\ Parsed(getAsset(r.id)) = r
                /\ Contains(getAssetsByIds(<<r.id>>), r)
                /\ Contains(getAssetsByCategory(r.category), r)
                /\ Contains(getAssetsBySymbols(<<r.symbol>>), r)]_vars

\* the reads a caller can make: getMany over the known ids, each category,
\* each symbol and both together, and everything
ReadResults ==
    {getAssetsByIds(SetToSeq(Ids)), getAllAssets}
      \cup {getAssetsByIds(<<i>>) : i \in Ids}
      \cup {getAssetsByCategory(c) : c \in Categories}
      \cup {getAssetsBySymbols(<<x>>) : x \in Symbols}
      \cup {getAssetsBySymbols(SetToSeq(Symbols))}

\* C21: an entry that has expired (and was not rewritten) is absent from the
\* result of get, getMany, getByCategory, getBySymbols and getAllAssets; an id
\* still listed in the category index or the symbol lookup yields neither a
\* placeholder nor the record.
C21_ExpiredEntryAbsent ==
    \A id \in Ids :
        assets[id] = NoAsset =>
            /\ getAsset(id) = NoAsset
            /\ \A q \in ReadResults :
                  \A i \in 1..Len(q) : q[i] # NoAsset /\ q[i].id # id

\* an entry expired with no clear ever called: its id is still listed in the
\* index of its category and in the symbol lookup, next to a live entry
C21_ExpiredStillListed ==
    \E id \in Ids :
        /\ nclears = 0
        /\ assets[id] = NoAsset
        /\ id \in catIndex[CategoryOf(id)]
        /\ symbols[SymbolOf(id)] = id
        /\ \E j \in catIndex[CategoryOf(id)] : assets[j] # NoAsset

\* the clear calls in progress, by call number
Calls(cl) == {k.n : k \in cl}

\* clear call n returns in this step: at once when it was started, or from
\* its last await
ClearReturns(n) ==
    /\ n \notin Calls(clearing')
    /\ \/ n \in Calls(clearing)
       \/ nclears = n - 1 /\ nclears' = n

\* the notification type of each clear
ClearType(op) ==
    CASE op = "clearAll" -> "clear"
      [] op = "clearCategory" -> "clear-category"
      [] op = "clearAsset" -> "clear-asset"
      [] OTHER -> "none"

ClearTypes == {"clear", "clear-category", "clear-asset"}

\* some clear has nothing to remove in this state
NothingToRemove ==
    \/ Keys = {}
    \/ \E c \in Categories : catIndex[c] = {}
    \/ \E id \in Ids : assets[id] = NoAsset
    \/ \E x \in Symbols : symbols[x] = NoId

\* C22 (amended): a clear call that returns without error has published one
\* notification of its own type when its lookup found something to remove;
\* a call that found nothing to remove returns without publishing.
C22_ClearPublishesWhenFound ==
    [][\A n \in 1..MaxClears :
          ClearReturns(n) =>
             IF \E k \in clearing : k.n = n /\ k.pc = "publish"
             THEN \E k \in clearing :
                     /\ k.n = n
                     /\ channel' = Append(channel, k.msg)
                     /\ k.msg.type = ClearType(k.op)
             ELSE /\ channel' = channel
                  /\ \/ n \notin Calls(clearing) /\ NothingToRemove
                     \/ \E k \in clearing :
                           k.n = n /\ k.op = "clearSymbol" /\ getAsset(k.id) = NoAsset]_vars

\* a clear call has returned and no clear notification was published, with
\* entries still stored
C22_ClearReturnedSilently ==
    /\ nclears = 1
    /\ clearing = {}
    /\ \A i \in 1..Len(channel) : channel[i].type \notin ClearTypes
    /\ \E id \in Ids : assets[id] # NoAsset

\* C22 as stated: every clear call that returns publishes a notification,
\* also when there is nothing to remove.
C22_EveryClearPublishes ==
    [][\A n \in 1..MaxClears :
          ClearReturns(n) =>
             /\ Len(channel') = Len(channel) + 1
             /\ channel'[Len(channel')].type \in ClearTypes]_vars

\* the categories a clear notification affects
Affected(m) ==
    IF m.type = "clear" THEN Categories
    ELSE {CategoryOf(m.assets[i]) : i \in 1..Len(m.assets)}

\* the subscription callback takes a clear notification off the channel
HandlesClear == channel # <<>> /\ channel' = Tail(channel) /\ Head(channel).type \in ClearTypes

\* C23: when the Distribution Engine handles the notification of a clear that
\* removed records, every connected client subscribed to 'all' or to an
\* affected category is sent a removal notification.
C23_ClearReachesSubscribers ==
    [][HandlesClear =>
          \A c \in Clients :
              (Connected(c) /\ (subs[c].all \/ subs[c].categories \cap Affected(Head(channel)) # {}))
                 => \E e \in emitted' : e.to = c]_vars

\* element i of the payload being handled
ItemAt(k, i) == IF k.shape = "object" THEN k.data[i].ticker ELSE k.data[i]

\* the percent change an upstream element states, as a number (Undefined
\* when it states none)
PercentInput(connector, item) ==
    IF item = Null \/ connector = "oanda" THEN Undefined
    ELSE IF connector = "cexio"
    THEN IF item.priceChangePercentage = Undefined THEN Undefined
         ELSE Number(item.priceChangePercentage)
    ELSE IF typeof(item.changesPercentage) = "number" THEN item.changesPercentage
    ELSE IF typeof(item.priceChangePercent) = "number" THEN item.priceChangePercent
    ELSE Undefined

Transforms == call.pc = "received" /\ call'.pc = "transformed"

Writes == call.pc = "transformed" /\ call'.pc = "idle"

\* the entry a write leaves for id: the last asset of the batch with that id
LastOf(list, id) ==
    LET at == {j \in 1..Len(list) : list[j].id = id}
    IN list[CHOOSE j \in at : \A x \in at : x <= j]

WrittenIds(list) == {list[j].id : j \in 1..Len(list)}

\* C24: for every connector, when the one element of a payload states a
\* percent change of magnitude above 1000, every record transform produces
\* for it has changePercent24h equal to 100 with the sign of the input, and
\* the write stores the records with the changePercent24h transform gave
\* them (so 5000 then -5000 for one id store 100 then -100).
C24_ExtremePercentStoredAsCap ==
    [][/\ Transforms /\ Len(call.data) = 1 =>
             LET p == PercentInput(call.connector, ItemAt(call, 1))
             IN (p # Undefined /\ AbsExceeds(p, 1000)) =>
                   \A j \in 1..Len(output') :
                       output'[j].changePercent24h = SignTimes100(p)
       /\ Writes =>
             \A id \in WrittenIds(output) :
                 kept'[id].changePercent24h = LastOf(output, id).changePercent24h]_vars

\* a changePercent24h that is absent or a number of magnitude at most 100
Within100(v) == v = Undefined \/ (IsFinite(v) /\ v.n <= 100 /\ v.n >= -100)

\* C25: every record transform has produced, and every record held in the
\* store, has a changePercent24h that is absent or of magnitude at most 100.
C25_PercentWithin100 ==
    /\ call.pc = "transformed" =>
           \A j \in 1..Len(output) : Within100(output[j].changePercent24h)
    /\ \A id \in FeedIds :
           kept[id] # NoAsset => Within100(kept[id].changePercent24h)

\* the fields of an upstream element its connector reads the price from
PriceInputs(connector, item) ==
    CASE connector = "cexio" -> {item.last, item.price}
      [] connector = "oanda" -> {item.closeoutBid, item.closeoutAsk}
      [] OTHER -> {item.price, item.currentPrice}

\* the element states no price that is, or converts to, a finite number
\* (for a bid/ask pair: one of the two does not)
Unpriced(connector, item) ==
    IF connector = "oanda"
    THEN \E v \in PriceInputs(connector, item) : ~IsFinite(parseFloat(v))
    ELSE \A v \in PriceInputs(connector, item) :
             v = Undefined \/ ~IsFinite(Number(v))

\* C26: every record a connector's transform returns has a price that is a
\* finite number, and an element whose price cannot be turned into a number
\* gives no record or a record with the fallback price 0.
C26_PriceIsFiniteNumber ==
    [][Transforms =>
          /\ \A j \in 1..Len(output') : IsFinite(output'[j].price)
          /\ (Len(call.data) = 1 /\ ItemAt(call, 1) # Null
                 /\ Unpriced(call.connector, ItemAt(call, 1))) =>
                \/ output' = <<>>
                \/ Len(output') = 1 /\ output'[1].price = Num(0)]_vars

\* transform gave one record the fallback price next to a record with the
\* price its element stated
C26_FallbackPriceGiven ==
    /\ call.pc = "transformed"
    /\ Len(output) = 2
    /\ output[1].price = Num(0)
    /\ output[2].price = Num(7)

\* what transform returns for element i of a payload handed over alone
AloneAt(k, i, now) == transform(k.connector, k.shape, <<k.data[i]>>, now)

\* the records of the elements of a payload, each transformed alone, in
\* input order
RECURSIVE EachAlone(_, _, _)
EachAlone(k, i, now) ==
    IF i > Len(k.data) THEN <<>>
    ELSE AloneAt(k, i, now) \o EachAlone(k, i + 1, now)

\* C27: for every input batch, transform returns the records of all its
\* well-formed entries in input order; a malformed entry (null, no symbol,
\* wrong type, failing validation) at any position contributes nothing and
\* takes no record of another entry of the batch away.
C27_MalformedEntryOnlyRemovesItself ==
    [][Transforms => output' = EachAlone(call, 1, ncalls)]_vars

\* the step in which the updateAssets call of a poll settles as failed: its
\* pipeline was rejected, or its publish was
PollWriteFails ==
    IsPublish /\ Head(updating).origin = "poll" /\ ~(Head(updating).ok /\ storeUp)

\* the step in which a fetch of a poll hands its assets to updateAssets
PollHandsOver == \E r \in returned' \ returned : r.result = "assets"

CreateAssetReturned == call.pc = "returned" /\ call.op = "createAsset"

\* two spellings of one symbol: they differ at most in letter case
SameLetters(s, t) == (s = "ETHUSD") = (t = "ETHUSD")

\* v is a number with the numeric value of the input w
NumberOf(v, w) == typeof(v) = "number" /\ IsFinite(v) /\ v.n = w.n

\* a 24h field of the result: a number equal to the input when one was given
Converted(v, w) == w # Undefined => NumberOf(v, w)

\* C29: createAsset returns a record whose id is the category joined to the
\* symbol in lower case, whose symbol is the symbol in upper case, whose
\* price and every provided 24h field are numbers with the numeric value of
\* the input, and which carries the time of the call as lastUpdated; a call
\* with the same category and the symbol in another letter case gives the
\* same id.
C29_CreateAssetNormalises ==
    CreateAssetReturned =>
        LET asset == output[1]
        IN /\ asset.id = <<call.category, toLowerCase(call.symbol)>>
           /\ asset.symbol = toUpperCase(call.symbol)
           /\ asset.category = call.category
           /\ NumberOf(asset.price, call.price)
           /\ Converted(asset.priceLow24h, call.extra.priceLow24h)
           /\ Converted(asset.priceHigh24h, call.extra.priceHigh24h)
           /\ Converted(asset.change24h, call.extra.change24h)
           /\ Converted(asset.changePercent24h, call.extra.changePercent24h)
           /\ Converted(asset.volume24h, call.extra.volume24h)
           /\ asset.lastUpdated = ncalls
           /\ \A s \in Spellings :
                 SameLetters(s, call.symbol) =>
                     createAsset(call.category, s, call.price, call.extra, ncalls).id
                        = asset.id

\* createAsset returned for a mixed-case symbol, a numeric string as price
\* and numeric strings in every 24h field
C29_MixedCaseNumericStrings ==
    /\ CreateAssetReturned
    /\ call.symbol = "BtcUsd"
    /\ call.price = Str(7)
    /\ call.extra.volume24h = Str(7)
    /\ output[1].id = <<call.category, "btcusd">>
    /\ output[1].price = Num(7)

\* a generateAssetStats call has returned
StatsReturned == call.pc = "returned" /\ call.op = "generateAssetStats"

\* the positions of a list that hold an asset of category c
OfCategoryIn(list, c) == {i \in 1..Len(list) : list[i].category = c}

\* those of them whose changePercent24h is above, and below, zero
Gainers(list, c) ==
    {i \in OfCategoryIn(list, c) :
        IsFinite(list[i].changePercent24h) /\ list[i].changePercent24h.n > 0}

Losers(list, c) ==
    {i \in OfCategoryIn(list, c) :
        IsFinite(list[i].changePercent24h) /\ list[i].changePercent24h.n < 0}

\* the sum of the counts of the entries of the categories in S
RECURSIVE SumOfCounts(_, _)
SumOfCounts(entries, S) ==
    IF S = {} THEN 0
    ELSE LET c == CHOOSE x \in S : TRUE
         IN entries[c].count + SumOfCounts(entries, S \ {c})

\* C30: generateAssetStats returns count equal to the length of the list and
\* one category entry exactly for each category occurring in it, with count,
\* gainers (changePercent24h > 0) and losers (changePercent24h < 0) equal to
\* the numbers of such assets of the category, so that gainers + losers <=
\* count and the counts of the categories sum to count; for the empty list
\* count is 0 and there is no category entry.
C30_StatsCountTheList ==
    StatsReturned =>
        LET list == call.list
            stats == output[1]
        IN /\ stats.count = Len(list)
           /\ DOMAIN stats.categories = {list[i].category : i \in 1..Len(list)}
           /\ \A c \in DOMAIN stats.categories :
                 /\ stats.categories[c].count = Cardinality(OfCategoryIn(list, c))
                 /\ stats.categories[c].gainers = Cardinality(Gainers(list, c))
                 /\ stats.categories[c].losers = Cardinality(Losers(list, c))
                 /\ stats.categories[c].gainers + stats.categories[c].losers
                       <= stats.categories[c].count
           /\ SumOfCounts(stats.categories, DOMAIN stats.categories) = stats.count
           /\ list = <<>> => stats.count = 0 /\ DOMAIN stats.categories = {}

\* the statistics of a list of two categories holding a gainer, a loser and
\* an asset that did not move
C30_MixedListCounted ==
    /\ StatsReturned
    /\ Len(call.list) = 3
    /\ DOMAIN output[1].categories = Categories
    /\ \E c \in Categories :
          /\ output[1].categories[c].count = 2
          /\ output[1].categories[c].gainers = 1
          /\ output[1].categories[c].losers = 0
    /\ \E c \in Categories : output[1].categories[c].losers = 1

\* the step in which an open upstream connection is closed by the remote end
IsDrop == tally'.drops = tally.drops + 1

\* the step in which a ticker message arrives on an open connection
IsPushMessage == ncalls' = ncalls + 1 /\ call'.pc = "pushed"

\* the reconnect timers pending
ReconnectTimers(p) == p.retry + p.disc + p.provider

\* the id createAsset gives the record of a CEX.IO pair
PairId(pair) == <<FeedCategory, toLowerCase(mapFromCexioSymbol(pair))>>

\* C31: when the remote end closes an established push connection a
\* reconnect timer is set, and every ticker that arrives on a connection
\* after such a drop is transformed and written to the store.
C31_ReconnectedFeedIsWritten ==
    [][/\ IsDrop => ReconnectTimers(pending') = ReconnectTimers(pending) + 1
       /\ (IsPushMessage /\ tally.drops > 0) =>
             \A i \in 1..Len(call'.data) :
                 /\ kept'[PairId(call'.data[i].pair)] # NoAsset
                 /\ kept'[PairId(call'.data[i].pair)].lastUpdated = ncalls']_vars

\* the larger of the two configured maxima: provider.maxRetries of the
\* manager and WS_CONFIG.maxReconnectAttempts of the connector
GiveUpAfter ==
    IF maxRetries > WS_CONFIG.maxReconnectAttempts
    THEN maxRetries ELSE WS_CONFIG.maxReconnectAttempts

\* the step in which a connection attempt is started
IsAttempt == tally'.attempts = tally.attempts + 1

\* C32: once the consecutive failed connection attempts of the push
\* connector number the configured maximum, no reconnect path starts a
\* further connection attempt.
C32_NoAttemptAfterMaximum ==
    [][tally.fails >= GiveUpAfter => ~IsAttempt]_vars


(***************************************************************************)
(* C33: once ProviderManager.shutdown has completed, no poll tick starts   *)
(* a fetch for any category, no reconnect timer starts a new connection    *)
(* and no store write is issued.                                           *)
(***************************************************************************)
ShutdownCompleted == phase \in {"redis", "closed"}

IsStoreWrite == wseq' = wseq + 1

C33_QuiescentAfterShutdown ==
    [][ShutdownCompleted => ~IsFetchStart /\ ~IsAttempt /\ ~IsStoreWrite]_vars


(***************************************************************************)
(* C34: when clearAsset(id) returns without error, id is in no primary     *)
(* entry, in no category index and in no symbol mapping, for every id that *)
(* an index listed before the call, an id whose primary entry had expired  *)
(* included; a later write of the id puts it back in all three.            *)
(***************************************************************************)
Listed(id) == (\E c \in Categories : id \in catIndex[c]) \/ (\E s \in Symbols : symbols[s] = id)

Gone(id) == assets[id] = NoAsset /\ ~Listed(id)

InAllThree(id) ==
    /\ assets[id] # NoAsset
    /\ id \in catIndex[assets[id].category]
    /\ symbols[assets[id].symbol] = id

\* clearAsset(id) is called and returns in the same step
ClearAssetReturnsAtOnce(id) == clearAsset(id) /\ clearing' = clearing

\* a clearAsset(id) call returns from its publish, no write having started
\* since its pipeline
ClearAssetReturnsLater(id) ==
    \E k \in clearing :
        /\ k.op = "clearAsset" /\ k.pc = "publish" /\ k.msg.assets = <<id>>
        /\ k \notin clearing'
        /\ k.msg.w = wseq

\* the step is an updateAssets call whose pipeline is applied and sets id
WritesId(id) ==
    /\ wseq' = wseq + 1
    /\ storeUp
    /\ \E i \in 1..Len(updating'[Len(updating')].batch) :
           updating'[Len(updating')].batch[i].id = id

C34_ClearAssetRemovesFromAllThree ==
    [][\A id \in Ids :
          /\ (Listed(id) /\ ClearAssetReturnsAtOnce(id)) => Gone(id)'
          /\ ClearAssetReturnsLater(id) => Gone(id)'
          /\ WritesId(id) => InAllThree(id)']_vars


(***************************************************************************)
(* C35: once every write, clearCategory and clearAsset call has            *)
(* completed, every record in primary storage is a member of its category  *)
(* index and its symbol is in the symbol lookup, whatever the              *)
(* interleaving of the calls was.                                          *)
(***************************************************************************)
AllCompleted == clearing = {} /\ updating = <<>>

Indexed(id) ==
    /\ id \in catIndex[assets[id].category]
    /\ symbols[assets[id].symbol] # NoId

C35_NoIndexUpdateLost ==
    AllCompleted => \A id \in Ids : assets[id] # NoAsset => Indexed(id)


(***************************************************************************)
(* C36: for each polled category the number of upstream fetches in flight  *)
(* at the same time stays below a constant, however long the upstream      *)
(* leaves requests unanswered: a tick that fires while earlier fetches     *)
(* are pending does not add to them without limit.                         *)
(***************************************************************************)
InFlight(category) == Cardinality({r \in requests : r.category = category})

\* a constant below the number of ticks that may fire while the upstream
\* is silent
InFlightBound == MaxFetches - 2

C36_InFlightFetchesBounded ==
    \A c \in Categories : InFlight(c) <= InFlightBound


(***************************************************************************)
(* C37: at every moment the push connector has at most one open upstream   *)
(* connection and at most one pending reconnect timer, with the manager's  *)
(* and the provider's reconnect logic both active.                         *)
(***************************************************************************)
OpenConnections == sockets.open["manager"] + sockets.open["provider"]

C37_OneConnectionOneTimer ==
    OpenConnections <= 1 /\ ReconnectTimers(pending) <= 1


(***************************************************************************)
(* C38: the counters that gate delivery never under-count: subscriptions   *)
(* .all is at least the number of connected sockets in room 'all-assets'   *)
(* and every category counter at least the number of connected sockets in  *)
(* that category's room, after any subscribe:all, subscribe:category       *)
(* (repeated or not) and disconnect events.                                *)
(***************************************************************************)
InRoom(room) == {c \in Clients : Connected(c) /\ room \in rooms[c]}

C38_CountersNeverUnderCount ==
    /\ subscriptions.all >= Cardinality(InRoom(<<"all-assets">>))
    /\ \A k \in Categories :
          subscriptions.categories[k] >= Cardinality(InRoom(<<"category", k>>))

\* a subscriber to all has left and another is still in the room
C38_OneLeftOneStays ==
    /\ \E c \in Clients : clientState[c] = "disconnected" /\ subs[c].all
    /\ InRoom(<<"all-assets">>) # {}


(***************************************************************************)
(* C39: a socket that has asked for all assets or for a category is sent   *)
(* every record written to the store after its request was received, in    *)
(* its snapshot or in a later update, whatever the interleaving of the     *)
(* subscribe handler, the writes and the handling of notifications.        *)
(***************************************************************************)
\* the pipeline of an updateAssets call has written id, its publish is due
JustWritten(id) ==
    \E i \in 1..Len(updating) : \E j \in 1..Len(updating[i].batch) :
        updating[i].batch[j].id = id

\* the socket's subscribe request covering id has been received
Asked(c, id) == subs[c].all \/ CategoryOf(id) \in subs[c].categories

\* the step just taken sent the record of id to the socket
SentRecord(c, id) ==
    \E e \in emitted : e.to = c /\ \E i \in 1..Len(e.assets) : e.assets[i].id = id

C39_NoGapAfterSubscribe ==
    \A c \in Clients, id \in Ids : (Asked(c, id) /\ JustWritten(id)) ~> SentRecord(c, id)

\* a record written after the request reaches the socket in an update
C39_UpdateAfterRequest ==
    \E c \in Clients, id \in Ids :
        /\ Asked(c, id)
        /\ lastWrite[id] > 0
        /\ \E e \in emitted : e.to = c /\ e.event # <<"data:all">>
                               /\ \E i \in 1..Len(e.assets) : e.assets[i].id = id


(***************************************************************************)
(* C40: clearAsset(id) and clearSymbol(symbol) touch the targeted record   *)
(* only: every other record in primary storage is unchanged and is still   *)
(* returned by getAssetsByCategory of its category and by                  *)
(* getAssetsBySymbols of its symbol, a record of another category with     *)
(* the cleared record's symbol included.                                   *)
(***************************************************************************)
\* the step is the pipeline of the clearAsset call k (made directly or by
\* clearSymbol)
IsClearAssetExec(k) ==
    k.op = "clearAsset" /\ k.pc = "exec" /\ k \notin clearing'

ReturnedIn(id, list) == \E i \in 1..Len(list) : list[i].id = id

ByItsCategory(id) == ReturnedIn(id, getAssetsByCategory(CategoryOf(id)))

ByItsSymbol(id) == ReturnedIn(id, getAssetsBySymbols(<<SymbolOf(id)>>))

C40_ClearLeavesOtherRecords ==
    [][\A k \in clearing : IsClearAssetExec(k) =>
          \A id \in Ids \ {k.id} :
              assets[id] # NoAsset =>
                  /\ getAsset(id)' = getAsset(id)
                  /\ ByItsCategory(id) => ByItsCategory(id)'
                  /\ ByItsSymbol(id) => ByItsSymbol(id)']_vars

====
